---- MODULE Spec2Model ----
(***************************************************************************)
(* Workflow builder: the job compiler (WorkflowUtils.exportJobsConfig) and *)
(* the execution engine (RealWorkflowExecutor) as a state machine.         *)
(*                                                                         *)
(* An async function invocation is a frame with a position (pc); one       *)
(* action is the synchronous code between two awaits, including the        *)
(* synchronous prefix of every async function it calls.  How long a        *)
(* handler takes (timers, network, injected collaborators, user scripts)   *)
(* is the environment's choice, so the continuations of different frames   *)
(* interleave in any order.  handlerCalls counts handler invocations; it   *)
(* is bookkeeping, not program state.                                      *)
(***************************************************************************)
EXTENDS Integers, Sequences, FiniteSets, TLC

VARIABLES
    workflowConfig,   \* the BackendJobsConfig handed to executeWorkflow
    runPc,            \* position of executeWorkflow
    wfStatus,         \* result.status
    wfEndTime,        \* result.endTime is set
    jobResults,       \* result.jobResults : nodeId -> JobExecutionResult
    executionLogs,    \* result.executionLogs
    executedNodes,    \* the Set passed down executeFromNode
    frames,           \* the executeFromNode invocations of the run
    isExecuting,      \* RealWorkflowExecutor.isExecuting
    jobUpdates,       \* the calls of onJobUpdate, <<jobId, status>>
    workflowUpdates,  \* the calls of onWorkflowUpdate, the status passed
    handlerCalls,     \* per job, the number of handler invocations
    thrown,           \* what executeWorkflow rejected with
    otherRun,         \* the locals of another executeWorkflow call on the
                      \* same executor, while the call above is followed
    modalProps,       \* ExecutionModal props: the builder's nodes and edges
    modalState,       \* ExecutionModal state: isExecuting, executionResult,
                      \* error
    cycleArgs,        \* the arguments of a wouldCreateCycle call
    cycleResult,      \* what the two wouldCreateCycle implementations return
    graphArgs,        \* the nodes and edges handed to validateTree,
                      \* validateWorkflow and exportJobsConfig
    graphResult,      \* what the three return
    nodesState,       \* useWorkflow: the nodes of the state
    edgesState,       \* useWorkflow: the edges of the state
    nodesRef,         \* useWorkflow: nodesRef.current, the nodes as of the
                      \* last render
    edgesRef,         \* useWorkflow: edgesRef.current, the edges as of the
                      \* last render
    autoConnectTimers, \* the edges of the pending setTimeout callbacks of
                      \* addNodeWithContext
    generatedIds,     \* the number of node ids generateId has handed out
    stateUpdates,     \* the number of setNodes and setEdges calls since the
                      \* last render
    scriptJob,        \* an executeScriptJob call: the clock, the timer of
                      \* executeWithTimeout and the JobExecutionResult
    apiJob,           \* an executeAPICallJob call: the clock, the abort
                      \* timer, the fetch and the JobExecutionResult
    mockRun,          \* an executeWorkflow call of MockWorkflowExecutor
    monitor           \* useWorkflowMonitor: its refs, its status and the
                      \* sockets it has created

modalVars == <<modalProps, modalState>>
validatorVars == <<cycleArgs, cycleResult, graphArgs, graphResult>>
editorVars == <<nodesState, edgesState, nodesRef, edgesRef, autoConnectTimers,
                generatedIds, stateUpdates>>
handlerVars == <<scriptJob, apiJob>>
otherVars == <<mockRun, monitor>>
uiVars == <<modalVars, validatorVars, editorVars, handlerVars, otherVars>>

\* what lies outside the executeWorkflow call that is followed
besideRun == <<otherRun, uiVars>>

vars == <<workflowConfig, runPc, wfStatus, wfEndTime, jobResults,
          executionLogs, executedNodes, frames, isExecuting, jobUpdates,
          workflowUpdates, handlerCalls, thrown, besideRun>>

Null == "null"
Undefined == "undefined"

(***************************************************************************)
(* Sequence helpers (Array.prototype.filter / map / find / some)           *)
(***************************************************************************)
RECURSIVE SelectSeqBy(_, _)
SelectSeqBy(s, keep) ==
    IF s = <<>> THEN <<>>
    ELSE IF Head(s) \in keep
         THEN <<Head(s)>> \o SelectSeqBy(Tail(s), keep)
         ELSE SelectSeqBy(Tail(s), keep)

Range(s) == {s[i] : i \in DOMAIN s}

(***************************************************************************)
(* Graph model: nodes and edges as the editor hands them to the compiler   *)
(***************************************************************************)
Node(id, type) == [id |-> id, type |-> type]
Edge(from, output, to) == [from |-> from, output |-> output, to |-> to]

typeMapping(t) ==
    CASE t = "StartNode" -> "Start"
      [] t = "AddTaskNode" -> "AddTask"
      [] t = "ConditionNode" -> "Condition"
      [] t = "APICallNode" -> "APICall"
      [] t = "ScriptNode" -> "Script"
      [] t = "SendEmailNode" -> "SendEmail"
      [] t = "EndNode" -> "End"
      [] OTHER -> Undefined

\* an export that keeps an absent port id as it is
PortAsIs(output) == output

\* edge.output || "default"
PortOrDefault(output) == IF output = "" THEN "default" ELSE output

exportJobsConfig(nodes, edges) ==
    LET connectionsOf(id) ==
            LET out == SelectSeqBy(edges, {e \in Range(edges) : e.from = id})
            IN [i \in DOMAIN out |->
                   [targetJobId |-> out[i].to,
                    condition |-> PortOrDefault(out[i].output)]]
        dependenciesOf(id) ==
            LET inc == SelectSeqBy(edges, {e \in Range(edges) : e.to = id})
            IN [i \in DOMAIN inc |->
                   [sourceJobId |-> inc[i].from,
                    condition |-> PortOrDefault(inc[i].output)]]
        jobs == [i \in DOMAIN nodes |->
                   [type |-> typeMapping(nodes[i].type),
                    nodeId |-> nodes[i].id,
                    connections |-> connectionsOf(nodes[i].id),
                    dependencies |-> dependenciesOf(nodes[i].id),
                    isConditional |-> nodes[i].type = "ConditionNode"]]
        starts == {i \in DOMAIN nodes : nodes[i].type = "StartNode"}
        firstStart == CHOOSE i \in starts : \A j \in starts : i <= j
    IN [jobs |-> jobs,
        executionFlow |->
            [startNode |-> IF starts = {} THEN Null ELSE nodes[firstStart].id,
             totalJobs |-> Len(jobs),
             hasConditionalFlow |->
                 \E i \in DOMAIN jobs : jobs[i].isConditional]]

(***************************************************************************)
(* The workflows that are executed                                         *)
(***************************************************************************)
\* Start=A, A->B, A->C, B->D, C->D
DiamondNodes == <<Node("A", "StartNode"), Node("B", "AddTaskNode"),
                  Node("C", "AddTaskNode"), Node("D", "EndNode")>>
DiamondEdges == <<Edge("A", "out", "B"), Edge("A", "out", "C"),
                  Edge("B", "out", "D"), Edge("C", "out", "D")>>

\* branch merge: M has the non-conditional parent B and the Condition-branch
\* parent A (port "true")
MergeNodes == <<Node("S", "StartNode"), Node("A", "ConditionNode"),
                Node("B", "AddTaskNode"), Node("M", "APICallNode")>>
MergeEdges == <<Edge("S", "out", "A"), Edge("S", "out", "B"),
                Edge("A", "true", "M"), Edge("B", "out", "M")>>

\* Start -> A, A{true -> T, false -> F}
BranchNodes == <<Node("Start", "StartNode"), Node("A", "ConditionNode"),
                 Node("T", "EndNode"), Node("F", "EndNode")>>
BranchEdges == <<Edge("Start", "", "A"), Edge("A", "true", "T"),
                 Edge("A", "false", "F")>>

\* S -> A, A{true -> T, false -> N}, T -> N: N also depends on T, which lies
\* on the true branch
UntakenNodes == <<Node("S", "StartNode"), Node("A", "ConditionNode"),
                  Node("T", "AddTaskNode"), Node("N", "EndNode")>>
UntakenEdges == <<Edge("S", "out", "A"), Edge("A", "true", "T"),
                  Edge("A", "false", "N"), Edge("T", "out", "N")>>

\* Start -> J -> End
ChainNodes == <<Node("Start", "StartNode"), Node("J", "APICallNode"),
                Node("End", "EndNode")>>
ChainEdges == <<Edge("Start", "out", "J"), Edge("J", "out", "End")>>

\* fan-out into two independent branches
FanOutNodes == <<Node("S", "StartNode"), Node("P", "ScriptNode"),
                 Node("Q", "SendEmailNode"), Node("Q2", "EndNode")>>
FanOutEdges == <<Edge("S", "out", "P"), Edge("S", "out", "Q"),
                 Edge("Q", "out", "Q2")>>

\* an edge to a node that is not in the node list, below the start node
DanglingNodes == <<Node("S", "StartNode"), Node("A", "AddTaskNode"),
                   Node("B", "EndNode")>>
DanglingEdges == <<Edge("S", "out", "A"), Edge("A", "out", "X"),
                   Edge("A", "out", "B")>>

\* no Start node
NoStartNodes == <<Node("A", "AddTaskNode"), Node("B", "EndNode")>>
NoStartEdges == <<Edge("A", "out", "B")>>

\* a directed cycle A -> B -> A below the start node
CycleNodes == <<Node("S", "StartNode"), Node("A", "AddTaskNode"),
                Node("B", "ScriptNode")>>
CycleEdges == <<Edge("S", "out", "A"), Edge("A", "out", "B"),
                Edge("B", "out", "A")>>

DiamondConfig == exportJobsConfig(DiamondNodes, DiamondEdges)
MergeConfig == exportJobsConfig(MergeNodes, MergeEdges)
BranchConfig == exportJobsConfig(BranchNodes, BranchEdges)
ChainConfig == exportJobsConfig(ChainNodes, ChainEdges)
FanOutConfig == exportJobsConfig(FanOutNodes, FanOutEdges)
DanglingConfig == exportJobsConfig(DanglingNodes, DanglingEdges)
NoStartConfig == exportJobsConfig(NoStartNodes, NoStartEdges)
CycleConfig == exportJobsConfig(CycleNodes, CycleEdges)
\* a job document whose executionFlow names a start job that is not listed
LostStartConfig ==
    [ChainConfig EXCEPT !.executionFlow.startNode = "X"]

UntakenConfig == exportJobsConfig(UntakenNodes, UntakenEdges)

Configs == {DiamondConfig, MergeConfig, BranchConfig, ChainConfig,
            FanOutConfig, DanglingConfig, NoStartConfig, CycleConfig,
            LostStartConfig, UntakenConfig}

NoConfig == [jobs |-> <<>>,
             executionFlow |-> [startNode |-> Null, totalJobs |-> 0,
                                hasConditionalFlow |-> FALSE]]

(***************************************************************************)
(* RealWorkflowExecutor                                                    *)
(***************************************************************************)
JobIds(cfg) == {cfg.jobs[i].nodeId : i \in DOMAIN cfg.jobs}

\* workflowConfig.jobs.find((j) => j.attributes.nodeId === nodeId)
HasJob(cfg, nodeId) == nodeId \in JobIds(cfg)
FindJob(cfg, nodeId) ==
    LET hits == {i \in DOMAIN cfg.jobs : cfg.jobs[i].nodeId = nodeId}
    IN cfg.jobs[CHOOSE i \in hits : \A j \in hits : i <= j]

\* jobResult.result before a handler has written it
NoResult == [defined |-> FALSE, conditionResult |-> Undefined]

\* the JobExecutionResult created for every job at the start of a run
InitialJobResult(job) ==
    [jobId |-> job.nodeId, type |-> job.type, status |-> "pending",
     startTime |-> FALSE, endTime |-> FALSE, result |-> NoResult,
     error |-> Undefined, logs |-> <<>>]

\* workflowResult.jobResults.get(id)?.status
StatusOf(jr, id) == IF id \in DOMAIN jr THEN jr[id].status ELSE Undefined

\* the traversal state one synchronous block threads through its calls
Log(st, message) == [st EXCEPT !.logs = Append(@, message)]
OnJobUpdate(st, id) == [st EXCEPT !.ju = Append(@, <<id, st.jr[id].status>>)]
NewFrame(st, nodeId, parent, pc) ==
    [st EXCEPT !.fr = Append(@, [nodeId |-> nodeId, parent |-> parent,
                                 pc |-> pc, outcome |-> Undefined,
                                 nextJobs |-> <<>>])]

\* the pending test without the executed-set lookup
IsPendingDependencyStatusOnly(jr, executed, dep) ==
    LET isCompleted == StatusOf(jr, dep.sourceJobId) = "completed"
        isFailed == StatusOf(jr, dep.sourceJobId) = "failed"
    IN ~isCompleted /\ ~isFailed

\* the pending test that lets only a completed dependency through
IsPendingDependencyFailedBlocks(jr, executed, dep) ==
    LET isExecuted == dep.sourceJobId \in executed
        isCompleted == StatusOf(jr, dep.sourceJobId) = "completed"
    IN ~isExecuted \/ ~isCompleted

\* dep is still pending for the visit: !isExecuted || (!isCompleted && !isFailed)
IsPendingDependency(jr, executed, dep) ==
    LET isExecuted == dep.sourceJobId \in executed
        isCompleted == StatusOf(jr, dep.sourceJobId) = "completed"
        isFailed == StatusOf(jr, dep.sourceJobId) = "failed"
    IN ~isExecuted \/ (~isCompleted /\ ~isFailed)

\* the dependency gate that looks at the first declared dependency only
PendingDependenciesFirstOnly(job, jr, executed) ==
    IF job.dependencies # <<>>
           /\ IsPendingDependency(jr, executed, Head(job.dependencies))
    THEN <<Head(job.dependencies)>>
    ELSE <<>>

\* job.dependencies.filter(...): the dependencies that still block the visit
PendingDependencies(job, jr, executed) ==
    SelectSeqBy(job.dependencies,
                {d \in Range(job.dependencies) :
                     IsPendingDependency(jr, executed, d)})

FailedDependencies(job, jr) ==
    SelectSeqBy(job.dependencies,
                {d \in Range(job.dependencies) :
                     StatusOf(jr, d.sourceJobId) = "failed"})

\* `${dep.sourceJobId} (${depJobResult?.status})` for every listed dependency
DepList(deps, jr) ==
    [i \in DOMAIN deps |->
        <<deps[i].sourceJobId, StatusOf(jr, deps[i].sourceJobId)>>]

\* the "Checking dependency" lines the pending filter logs, one per dependency
RECURSIVE LogDependencyChecks(_, _, _)
LogDependencyChecks(st, deps, executed) ==
    IF deps = <<>> THEN st
    ELSE LogDependencyChecks(
             Log(st, <<"Checking dependency", Head(deps).sourceJobId,
                       Head(deps).sourceJobId \in executed,
                       StatusOf(st.jr, Head(deps).sourceJobId)>>),
             Tail(deps), executed)

\* executeJob up to the await of the handler: the job is dispatched
StartExecuteJob(st, job, parent) ==
    LET id == job.nodeId
        s1 == [st EXCEPT !.jr[id].status = "running",
                         !.jr[id].startTime = TRUE,
                         !.hc[id] = @ + 1]
        s2 == Log(s1, <<"Executing", job.type, id>>)
    IN NewFrame(OnJobUpdate(s2, id), id, parent, "handler")

\* a revisit test that never recognises an executed node
NeverAlreadyExecuted(executed, nodeId) == FALSE

\* executedNodes.has(nodeId)
AlreadyExecuted(executed, nodeId) == nodeId \in executed

\* executeFromNode up to its first await
VisitNode(st, cfg, executed, nodeId, parent) ==
    LET s0 == Log(st, <<"Attempting to execute node", nodeId>>)
    IN IF AlreadyExecuted(executed, nodeId)
       THEN NewFrame(Log(s0, <<"already executed, skipping", nodeId>>),
                     nodeId, parent, "resolved")
       ELSE IF ~HasJob(cfg, nodeId)
       THEN NewFrame(Log(s0, <<"Job not found", nodeId>>),
                     nodeId, parent, "rejected")
       ELSE
         LET job == FindJob(cfg, nodeId)
             s1 == Log(Log(s0, <<"Found job", nodeId>>),
                       <<"Job dependencies", nodeId>>)
             s2 == LogDependencyChecks(s1, job.dependencies, executed)
             pendingDependencies == PendingDependencies(job, st.jr, executed)
             failedDependencies == FailedDependencies(job, st.jr)
             failedList == DepList(failedDependencies, st.jr)
             pendingList == DepList(pendingDependencies, st.jr)
             s3 == IF failedDependencies # <<>>
                   THEN OnJobUpdate(
                          [Log(s2, <<"has failed dependencies", nodeId>>)
                             EXCEPT !.jr[nodeId].logs =
                                 Append(@, <<"Warning", failedList>>)],
                          nodeId)
                   ELSE s2
         IN IF pendingDependencies # <<>>
            THEN NewFrame(
                   OnJobUpdate(
                     [Log(s3, <<"waiting for dependencies", nodeId>>)
                        EXCEPT !.jr[nodeId].logs =
                            Append(@, <<"Waiting", pendingList>>)],
                     nodeId),
                   nodeId, parent, "resolved")
            ELSE StartExecuteJob(s3, job, parent)

\* nextJobs.map((nextJobId) => this.executeFromNode(nextJobId, ...))
RECURSIVE LaunchAll(_, _, _, _, _)
LaunchAll(st, cfg, executed, nextJobs, parent) ==
    IF nextJobs = <<>> THEN st
    ELSE LaunchAll(VisitNode(st, cfg, executed, Head(nextJobs), parent),
                   cfg, executed, Tail(nextJobs), parent)

\* next jobs without the branch selection: every connection is followed
getNextJobsAllConnections(job, jobResult) ==
    [i \in DOMAIN job.connections |-> job.connections[i].targetJobId]

\* next jobs where a conditional job without a conditionResult follows every
\* connection
getNextJobsAllWithoutResult(job, jobResult) ==
    IF job.isConditional /\ jobResult.result.defined
         /\ jobResult.result.conditionResult # Undefined
    THEN LET targetCondition ==
                 IF jobResult.result.conditionResult = "true"
                 THEN "true" ELSE "false"
             kept == SelectSeqBy(job.connections,
                                 {c \in Range(job.connections) :
                                      c.condition = targetCondition})
         IN [i \in DOMAIN kept |-> kept[i].targetJobId]
    ELSE [i \in DOMAIN job.connections |-> job.connections[i].targetJobId]

getNextJobs(job, jobResult) ==
    LET followed ==
            IF job.isConditional /\ jobResult.result.defined
                 /\ jobResult.result.conditionResult # Undefined
            THEN LET targetCondition ==
                         IF jobResult.result.conditionResult = "true"
                         THEN "true" ELSE "false"
                 IN {c \in Range(job.connections) :
                         c.condition = targetCondition}
            ELSE {c \in Range(job.connections) :
                      c.condition = "out" \/ c.condition = "default"}
        kept == SelectSeqBy(job.connections, followed)
    IN [i \in DOMAIN kept |-> kept[i].targetJobId]

\* what a handler can do, by job type: "ok", "fail", and for a Condition job
\* the conditionResult it computes
HandlerOutcomes(type) ==
    CASE type \in {"Start", "End", "AddTask"} -> {"ok"}
      [] type = "Condition" -> {"true", "false", "fail"}
      [] type \in {"APICall", "Script", "SendEmail"} -> {"ok", "fail"}
      [] OTHER -> {"fail"}

HandlerResult(outcome) ==
    CASE outcome = "true" -> [defined |-> TRUE, conditionResult |-> "true"]
      [] outcome = "false" -> [defined |-> TRUE, conditionResult |-> "false"]
      [] OTHER -> [defined |-> TRUE, conditionResult |-> Undefined]

(***************************************************************************)
(* executeConditionJob: the predicates of a Condition job                  *)
(***************************************************************************)
\* JavaScript strings are sequences of characters
UpperCase == <<"A", "B", "C", "D", "E", "F", "G", "H", "I", "J", "K", "L",
               "M", "N", "O", "P", "Q", "R", "S", "T", "U", "V", "W", "X",
               "Y", "Z">>
LowerCase == <<"a", "b", "c", "d", "e", "f", "g", "h", "i", "j", "k", "l",
               "m", "n", "o", "p", "q", "r", "s", "t", "u", "v", "w", "x",
               "y", "z">>
Digits == <<"0", "1", "2", "3", "4", "5", "6", "7", "8", "9">>

\* null and a result object of an earlier job: no string of characters
JsNull == <<"null">>
ResultObject == <<"object">>

\* numbers: NaN or a value
NaN == [nan |-> TRUE, value |-> 0]
Num(n) == [nan |-> FALSE, value |-> n]

\* String(v) for null, a result object and a string
JsString(v) ==
    IF v = JsNull THEN <<"n", "u", "l", "l">>
    ELSE IF v = ResultObject
    THEN <<"[", "o", "b", "j", "e", "c", "t", " ", "O", "b", "j", "e", "c",
           "t", "]">>
    ELSE v

\* String.prototype.toLowerCase
toLowerCase(s) ==
    [i \in DOMAIN s |->
        IF \E k \in DOMAIN UpperCase : UpperCase[k] = s[i]
        THEN LowerCase[CHOOSE k \in DOMAIN UpperCase : UpperCase[k] = s[i]]
        ELSE s[i]]

\* String.prototype.includes
includes(s, search) ==
    \E k \in 0..(Len(s) - Len(search)) :
        \A i \in DOMAIN search : s[k + i] = search[i]

\* String.prototype.trim
RECURSIVE trim(_)
trim(s) ==
    IF s = <<>> THEN s
    ELSE IF Head(s) = " " THEN trim(Tail(s))
    ELSE IF s[Len(s)] = " " THEN trim(SubSeq(s, 1, Len(s) - 1))
    ELSE s

\* the value of a string of decimal digits
RECURSIVE DigitsValue(_)
DigitsValue(s) ==
    IF s = <<>> THEN 0
    ELSE 10 * DigitsValue(SubSeq(s, 1, Len(s) - 1))
         + (CHOOSE d \in DOMAIN Digits : Digits[d] = s[Len(s)]) - 1

\* Number(v) for null, a result object and a string of digits, of blanks or
\* of other characters
JsNumber(v) ==
    IF v = JsNull THEN Num(0)
    ELSE IF v = ResultObject THEN NaN
    ELSE IF trim(v) = <<>> THEN Num(0)
    ELSE IF \A i \in DOMAIN trim(v) :
                \E d \in DOMAIN Digits : Digits[d] = trim(v)[i]
    THEN Num(DigitsValue(trim(v)))
    ELSE NaN

\* a > b and a < b: false when an operand is NaN
GreaterThan(a, b) == ~a.nan /\ ~b.nan /\ a.value > b.value
LessThan(a, b) == ~a.nan /\ ~b.nan /\ a.value < b.value

\* !!v for null and a result object
Truthy(v) == v # JsNull

\* the context key a job type gets besides the job id
ResultKey(type) ==
    CASE type = "Start" -> "start_result"
      [] type = "AddTask" -> "addtask_result"
      [] type = "Condition" -> "condition_result"
      [] type = "APICall" -> "apicall_result"
      [] type = "Script" -> "script_result"
      [] type = "SendEmail" -> "sendemail_result"
      [] type = "End" -> "end_result"
      [] OTHER -> Undefined

\* getJobResultsForScript(workflowResult)[field], null when it is undefined
ContextValue(jr, field) ==
    IF \E id \in DOMAIN jr :
           /\ jr[id].result.defined
           /\ field \in {id, ResultKey(jr[id].type)}
    THEN ResultObject
    ELSE JsNull

KnownOperators ==
    {"equals", "not_equals", "greater_than", "less_than", "contains",
     "not_contains", "is_empty", "is_not_empty"}

\* the switch (operator) of executeConditionJob on a known operator
EvaluateOperator(operator, fieldValue, value) ==
    CASE operator = "equals" -> JsString(fieldValue) = JsString(value)
      [] operator = "not_equals" -> JsString(fieldValue) # JsString(value)
      [] operator = "greater_than" ->
             GreaterThan(JsNumber(fieldValue), JsNumber(value))
      [] operator = "less_than" ->
             LessThan(JsNumber(fieldValue), JsNumber(value))
      [] operator = "contains" ->
             includes(toLowerCase(JsString(fieldValue)),
                      toLowerCase(JsString(value)))
      [] operator = "not_contains" ->
             ~includes(toLowerCase(JsString(fieldValue)),
                       toLowerCase(JsString(value)))
      [] operator = "is_empty" ->
             ~Truthy(fieldValue) \/ trim(JsString(fieldValue)) = <<>>
      [] operator = "is_not_empty" ->
             Truthy(fieldValue) /\ trim(JsString(fieldValue)) # <<>>

\* results.some for every logic
combineWithSome(logic, results) == \E i \in DOMAIN results : results[i]

\* logic === "AND" ? results.every((r) => r) : results.some((r) => r)
combineResults(logic, results) ==
    IF logic = "AND" THEN \A i \in DOMAIN results : results[i]
    ELSE \E i \in DOMAIN results : results[i]

\* a handler that evaluates an unknown operator to false
unknownOperatorIsFalse(conditions) == FALSE

\* default: throw new Error(`Unknown operator: ${operator}`)
unknownOperatorThrows(conditions) ==
    \E i \in DOMAIN conditions : conditions[i].operator \notin KnownOperators

\* executeConditionJob: "fail" when it throws, else the conditionResult
executeConditionJob(attributes, jr) ==
    LET conditions == attributes.conditions
        logic == IF attributes.logic = Undefined THEN "AND"
                 ELSE attributes.logic
        results ==
            [i \in DOMAIN conditions |->
                IF conditions[i].operator \in KnownOperators
                THEN EvaluateOperator(
                         conditions[i].operator,
                         ContextValue(jr, conditions[i].field),
                         conditions[i].value)
                ELSE FALSE]
    IN IF conditions = <<>> THEN "fail"
       ELSE IF unknownOperatorThrows(conditions) THEN "fail"
       ELSE IF combineResults(logic, results) THEN "true" ELSE "false"

\* what the handler of a job can do: a Condition job that carries
\* attributes is evaluated, every other handler is taken by its type
HandlerOutcomesOf(job, jr) ==
    IF "attributes" \in DOMAIN job
    THEN {executeConditionJob(job.attributes, jr)}
    ELSE HandlerOutcomes(job.type)

TraversalState ==
    [jr |-> jobResults, logs |-> executionLogs, ju |-> jobUpdates,
     fr |-> frames, hc |-> handlerCalls]

Settled(f) == frames[f].pc \in {"resolved", "rejected"}
Children(f) == {c \in DOMAIN frames : frames[c].parent = f}

\* the locals of an executeWorkflow call: its arguments, its position, the
\* WorkflowResult it builds and the executed set it passes down
RunLocals ==
    [workflowConfig |-> workflowConfig, runPc |-> runPc,
     wfStatus |-> wfStatus, wfEndTime |-> wfEndTime,
     jobResults |-> jobResults, executionLogs |-> executionLogs,
     executedNodes |-> executedNodes, frames |-> frames,
     handlerCalls |-> handlerCalls, thrown |-> thrown]

\* no call
NoRun ==
    [workflowConfig |-> NoConfig, runPc |-> "idle", wfStatus |-> Undefined,
     wfEndTime |-> FALSE, jobResults |-> <<>>, executionLogs |-> <<>>,
     executedNodes |-> {}, frames |-> <<>>, handlerCalls |-> <<>>,
     thrown |-> Undefined]

\* an empty builder
NoGraph == [nodes |-> <<>>, edges |-> <<>>]

\* useState(false), useState(null), useState(null)
ModalClosed == [isExecuting |-> FALSE, executionResult |-> FALSE,
                error |-> Null]

\* no wouldCreateCycle call has been made
NoCycleArgs == [edges |-> <<>>, source |-> Null, target |-> Null]
NoCycleResult == [utilsCalled |-> FALSE, utils |-> FALSE,
                  treeCalled |-> FALSE, tree |-> FALSE]


\* no validation or export call is prepared
NoGraphArgs == [nodes |-> <<>>, edges |-> <<>>]
NoGraphResult ==
    [treeCalled |-> FALSE, tree |-> Undefined,
     workflowCalled |-> FALSE, workflow |-> Undefined,
     exportCalled |-> FALSE, export |-> Undefined,
     orderCalled |-> FALSE, order |-> Undefined]

\* a setTimeout timer: cleared or never set, or set and due at a time
NoTimer == [armed |-> FALSE, due |-> 0]
TimerAt(due) == [armed |-> TRUE, due |-> due]

\* no Script handler and no APICall handler has been called
NoScriptJob ==
    [pc |-> "idle", body |-> Undefined, timeout |-> 0, now |-> 0,
     startTime |-> 0, timer |-> NoTimer, status |-> "pending",
     error |-> Undefined, result |-> Undefined, endTime |-> Undefined]
NoApiJob ==
    [pc |-> "idle", requestTimeout |-> 0, now |-> 0, timer |-> NoTimer,
     fetched |-> Undefined, status |-> "pending", error |-> Undefined,
     result |-> Undefined]

\* no executeWorkflow call of the mock executor has been made
NoMockRun ==
    [config |-> NoConfig, pc |-> "idle", status |-> Undefined,
     jobResults |-> <<>>, executedNodes |-> {}, frames |-> <<>>,
     isExecuting |-> FALSE, workflowUpdates |-> <<>>]

\* the hook before its first effect
NoMonitor ==
    [connectionStatus |-> "disconnected", websocketRef |-> 0,
     reconnectTimeoutRef |-> 0, reconnectAttempts |-> 0,
     manualDisconnect |-> FALSE, sockets |-> <<>>, timers |-> <<>>,
     closeCode |-> 0]

Init ==
    /\ workflowConfig = NoConfig
    /\ runPc = "idle"
    /\ wfStatus = Undefined
    /\ wfEndTime = FALSE
    /\ jobResults = <<>>
    /\ executionLogs = <<>>
    /\ executedNodes = {}
    /\ frames = <<>>
    /\ isExecuting = FALSE
    /\ jobUpdates = <<>>
    /\ workflowUpdates = <<>>
    /\ handlerCalls = <<>>
    /\ thrown = Undefined
    /\ otherRun = NoRun
    /\ modalProps = NoGraph
    /\ modalState = ModalClosed
    /\ cycleArgs = NoCycleArgs
    /\ cycleResult = NoCycleResult
    /\ graphArgs = NoGraphArgs
    /\ graphResult = NoGraphResult
    /\ nodesState = <<>>
    /\ edgesState = <<>>
    /\ nodesRef = <<>>
    /\ edgesRef = <<>>
    /\ autoConnectTimers = <<>>
    /\ generatedIds = 0
    /\ stateUpdates = 0
    /\ scriptJob = NoScriptJob
    /\ apiJob = NoApiJob
    /\ mockRun = NoMockRun
    /\ monitor = NoMonitor

\* a start lookup that falls back to the first job
StartNodeIdOrFirstJob(cfg) ==
    IF cfg.executionFlow.startNode = Null /\ cfg.jobs # <<>>
    THEN cfg.jobs[1].nodeId
    ELSE cfg.executionFlow.startNode

\* const startNodeId = workflowConfig.executionFlow.startNode
StartNodeId(cfg) == cfg.executionFlow.startNode

\* an executed set carried over from the run before
ReusedExecutedSet == executedNodes

\* new Set(): the executed set of a run
NewExecutedSet == {}

\* executeWorkflow up to the await of the traversal, or to its rejection when
\* there is no start node
executeWorkflow(cfg) ==
    /\ workflowConfig' = cfg
    /\ executedNodes' = NewExecutedSet
    /\ LET ids == JobIds(cfg)
           jr0 == [id \in ids |-> InitialJobResult(FindJob(cfg, id))]
           startNodeId == StartNodeId(cfg)
           st0 == [jr |-> jr0,
                   logs |-> <<<<"Starting REAL workflow execution",
                                Len(cfg.jobs)>>>>,
                   ju |-> jobUpdates, fr |-> <<>>,
                   hc |-> [id \in ids |-> 0]]
       IN IF startNodeId = Null
          THEN /\ jobResults' = jr0
               /\ handlerCalls' = st0.hc
               /\ frames' = <<>>
               /\ jobUpdates' = jobUpdates
               /\ wfStatus' = "failed"
               /\ wfEndTime' = TRUE
               /\ executionLogs' =
                      Append(st0.logs, <<"Real workflow failed", "NoStartNode">>)
               /\ thrown' = "NoStartNode"
               /\ isExecuting' = FALSE
               /\ workflowUpdates' = Append(workflowUpdates, "failed")
               /\ runPc' = "rejected"
          ELSE LET s1 == Log(Log(st0, <<"Starting execution from node",
                                        startNodeId>>),
                             <<"Available jobs">>)
                   s2 == VisitNode(s1, cfg, NewExecutedSet, startNodeId, 0)
               IN /\ jobResults' = s2.jr
                  /\ handlerCalls' = s2.hc
                  /\ frames' = s2.fr
                  /\ jobUpdates' = s2.ju
                  /\ executionLogs' = s2.logs
                  /\ wfStatus' = "running"
                  /\ wfEndTime' = FALSE
                  /\ thrown' = Undefined
                  /\ isExecuting' = TRUE
                  /\ workflowUpdates' = workflowUpdates
                  /\ runPc' = "await executeFromNode"

\* the first executeWorkflow call on the executor
ExecuteWorkflow(cfg) ==
    /\ runPc = "idle"
    /\ executeWorkflow(cfg)
    /\ UNCHANGED besideRun

\* a further executeWorkflow call on the same executor, made while the first
\* call is awaiting or after it has settled; the first call's locals are set
\* aside
ExecuteWorkflowAgain(cfg) ==
    /\ runPc # "idle"
    /\ otherRun = NoRun
    /\ otherRun' = RunLocals
    /\ executeWorkflow(cfg)
    /\ UNCHANGED uiVars

\* the event loop turns to the other call: its locals come into view
SwitchRun ==
    /\ otherRun # NoRun
    /\ otherRun' = RunLocals
    /\ workflowConfig' = otherRun.workflowConfig
    /\ runPc' = otherRun.runPc
    /\ wfStatus' = otherRun.wfStatus
    /\ wfEndTime' = otherRun.wfEndTime
    /\ jobResults' = otherRun.jobResults
    /\ executionLogs' = otherRun.executionLogs
    /\ executedNodes' = otherRun.executedNodes
    /\ frames' = otherRun.frames
    /\ handlerCalls' = otherRun.handlerCalls
    /\ thrown' = otherRun.thrown
    /\ UNCHANGED <<isExecuting, jobUpdates, workflowUpdates, uiVars>>

\* the handler of frame f returns (writing jobResult.result) or throws
HandlerReturn(f, outcome) ==
    /\ frames[f].pc = "handler"
    /\ LET id == frames[f].nodeId
           job == FindJob(workflowConfig, id)
       IN /\ outcome \in HandlerOutcomesOf(job, jobResults)
          /\ jobResults' =
                 [jobResults EXCEPT
                    ![id].result = IF outcome = "fail" THEN @
                                   ELSE HandlerResult(outcome),
                    ![id].logs = Append(@, <<"handler", outcome>>)]
          /\ frames' = [frames EXCEPT ![f].pc = "executeJob",
                                      ![f].outcome = outcome]
    /\ UNCHANGED <<besideRun, workflowConfig, runPc, wfStatus, wfEndTime, executionLogs,
                   executedNodes, isExecuting, jobUpdates, workflowUpdates,
                   handlerCalls, thrown>>

\* executeJob after the handler: status completed, or the catch block; then
\* the finally block's onJobUpdate
ExecuteJobSettle(f) ==
    /\ frames[f].pc = "executeJob"
    /\ LET id == frames[f].nodeId
           job == FindJob(workflowConfig, id)
           failed == frames[f].outcome = "fail"
           jr1 == IF failed
                  THEN [jobResults EXCEPT ![id].status = "failed",
                                          ![id].endTime = TRUE,
                                          ![id].error = "HandlerError"]
                  ELSE [jobResults EXCEPT ![id].status = "completed",
                                          ![id].endTime = TRUE]
       IN /\ jobResults' = jr1
          /\ executionLogs' =
                 Append(executionLogs,
                        <<IF failed THEN "Failed" ELSE "Completed",
                          job.type, id>>)
          /\ jobUpdates' = Append(jobUpdates, <<id, jr1[id].status>>)
          /\ frames' = [frames EXCEPT ![f].pc = "await executeJob"]
    /\ UNCHANGED <<besideRun, workflowConfig, runPc, wfStatus, wfEndTime, executedNodes,
                   isExecuting, workflowUpdates, handlerCalls, thrown>>

\* the executed set without the add in the catch block
AddExecutedOnSuccess(executed, nodeId, failed) ==
    IF failed THEN executed ELSE executed \cup {nodeId}

\* executedNodes.add(nodeId), after executeJob in the try block and in the
\* catch block
AddExecuted(executed, nodeId, failed) == executed \cup {nodeId}

\* executeFromNode after the await of executeJob: the job enters the executed
\* set (in the try block, or in the catch block after the failure is
\* recorded) and getNextJobs is called
AfterExecuteJob(f) ==
    /\ frames[f].pc = "await executeJob"
    /\ LET id == frames[f].nodeId
           job == FindJob(workflowConfig, id)
           failed == frames[f].outcome = "fail"
           jr1 == IF failed
                  THEN [jobResults EXCEPT ![id].status = "failed",
                                          ![id].error = "HandlerError",
                                          ![id].endTime = TRUE]
                  ELSE jobResults
       IN /\ jobResults' = jr1
          /\ jobUpdates' = IF failed
                           THEN Append(jobUpdates, <<id, "failed">>)
                           ELSE jobUpdates
          /\ executedNodes' = AddExecuted(executedNodes, id, failed)
          /\ executionLogs' = IF failed
                              THEN Append(executionLogs,
                                          <<"failed - Continuing", id>>)
                              ELSE executionLogs
          /\ frames' = [frames EXCEPT
                          ![f].pc = "await getNextJobs",
                          ![f].nextJobs = getNextJobs(job, jr1[id])]
    /\ UNCHANGED <<besideRun, workflowConfig, runPc, wfStatus, wfEndTime, isExecuting,
                   workflowUpdates, handlerCalls, thrown>>

\* the traversal of every next job is started, each up to its first await
LaunchNextJobs(f) ==
    /\ frames[f].pc = "await getNextJobs"
    /\ LET s0 == [TraversalState EXCEPT
                    !.fr[f].pc = "await allSettled"]
           s1 == LaunchAll(s0, workflowConfig, executedNodes,
                           frames[f].nextJobs, f)
       IN /\ jobResults' = s1.jr
          /\ executionLogs' = s1.logs
          /\ jobUpdates' = s1.ju
          /\ frames' = s1.fr
          /\ handlerCalls' = s1.hc
    /\ UNCHANGED <<besideRun, workflowConfig, runPc, wfStatus, wfEndTime, executedNodes,
                   isExecuting, workflowUpdates, thrown>>

\* a join that fulfils as soon as one child has settled
AnySettledReady(f) ==
    \/ Children(f) = {}
    \/ \E c \in Children(f) : Settled(c)

\* Promise.allSettled(nextJobPromises) fulfils once every child has settled,
\* whether it resolved or rejected
AllSettledReady(f) == \A c \in Children(f) : Settled(c)

AllSettled(f) ==
    /\ frames[f].pc = "await allSettled"
    /\ AllSettledReady(f)
    /\ frames' = [frames EXCEPT ![f].pc = "resolved"]
    /\ UNCHANGED <<besideRun, workflowConfig, runPc, wfStatus, wfEndTime, jobResults,
                   executionLogs, executedNodes, isExecuting, jobUpdates,
                   workflowUpdates, handlerCalls, thrown>>

\* jobResults.filter((job) => job.status === ...).map(jobId), in Map order
JobsWithStatus(cfg, jr, statuses) ==
    LET kept == SelectSeqBy(cfg.jobs,
                    {j \in Range(cfg.jobs) : jr[j.nodeId].status \in statuses})
    IN [i \in DOMAIN kept |-> kept[i].nodeId]

\* the lines logged once the traversal has returned
RECURSIVE LogFailedJobs(_, _)
LogFailedJobs(logs, failedJobs) ==
    IF failedJobs = <<>> THEN logs
    ELSE LogFailedJobs(Append(logs, <<"Failed Job", Head(failedJobs)>>),
                       Tail(failedJobs))

FinalLogs(logs, failedJobs, completedJobs, skippedJobs) ==
    IF failedJobs # <<>>
    THEN LET l1 == LogFailedJobs(
                     Append(logs, <<"Workflow completed with failed job(s)",
                                    Len(failedJobs), Len(completedJobs)>>),
                     failedJobs)
             l2 == IF completedJobs # <<>>
                   THEN Append(l1, <<"Successful Jobs", completedJobs>>)
                   ELSE l1
         IN IF skippedJobs # <<>>
            THEN Append(l2, <<"Skipped/Pending Jobs", skippedJobs>>)
            ELSE l2
    ELSE Append(logs, <<"Real workflow completed successfully",
                        Len(completedJobs)>>)

\* a final status that reports a run with failed jobs as failed
FinalStatusFailedOnFailure(failedJobs) ==
    IF failedJobs # <<>> THEN "failed" ELSE "completed"

\* result.status once the traversal has returned: "completed" in both
\* branches of the failedJobs test
FinalStatus(failedJobs) == "completed"

\* a traversal that is started without being awaited
TraversalNotAwaited(fr) == TRUE

\* await this.executeFromNode(startNodeId, ...): the start node's invocation
\* has settled
TraversalAwaited(fr) == fr[1].pc \in {"resolved", "rejected"}

\* executeWorkflow after the await of the traversal: the final status, or the
\* catch block when the start node's traversal rejected; then finally
FinishWorkflow ==
    /\ runPc = "await executeFromNode"
    /\ TraversalAwaited(frames)
    /\ IF frames[1].pc = "rejected"
       THEN /\ wfStatus' = "failed"
            /\ executionLogs' =
                   Append(executionLogs, <<"Real workflow failed", "JobNotFound">>)
            /\ thrown' = "JobNotFound"
            /\ runPc' = "rejected"
       ELSE /\ wfStatus' =
                   FinalStatus(JobsWithStatus(workflowConfig, jobResults,
                                              {"failed"}))
            /\ executionLogs' =
                   FinalLogs(executionLogs,
                       JobsWithStatus(workflowConfig, jobResults, {"failed"}),
                       JobsWithStatus(workflowConfig, jobResults,
                                      {"completed"}),
                       JobsWithStatus(workflowConfig, jobResults,
                                      {"pending", "skipped"}))
            /\ thrown' = Undefined
            /\ runPc' = "returned"
    /\ wfEndTime' = TRUE
    /\ isExecuting' = FALSE
    /\ workflowUpdates' = Append(workflowUpdates, wfStatus')
    /\ UNCHANGED <<besideRun, workflowConfig, jobResults, executedNodes, frames,
                   jobUpdates, handlerCalls>>

\* a cancellation that also abandons the handlers in flight
cancelExecutionAbortsHandlers ==
    /\ isExecuting
    /\ isExecuting' = FALSE
    /\ frames' = [f \in DOMAIN frames |->
                      IF frames[f].pc = "handler"
                      THEN [frames[f] EXCEPT !.pc = "resolved"]
                      ELSE frames[f]]
    /\ UNCHANGED <<besideRun, workflowConfig, runPc, wfStatus, wfEndTime, jobResults,
                   executionLogs, executedNodes, jobUpdates,
                   workflowUpdates, handlerCalls, thrown>>

\* a cancellation that also drops the next jobs that wait to be launched
cancelExecutionStopsDispatch ==
    /\ isExecuting
    /\ isExecuting' = FALSE
    /\ frames' = [f \in DOMAIN frames |->
                      IF frames[f].pc = "await getNextJobs"
                      THEN [frames[f] EXCEPT !.nextJobs = <<>>]
                      ELSE frames[f]]
    /\ UNCHANGED <<besideRun, workflowConfig, runPc, wfStatus, wfEndTime, jobResults,
                   executionLogs, executedNodes, jobUpdates,
                   workflowUpdates, handlerCalls, thrown>>

\* cancelExecution(): the flag is cleared, nothing else
cancelExecution ==
    /\ isExecuting
    /\ isExecuting' = FALSE
    /\ UNCHANGED <<besideRun, workflowConfig, runPc, wfStatus, wfEndTime, jobResults,
                   executionLogs, executedNodes, frames, jobUpdates,
                   workflowUpdates, handlerCalls, thrown>>

Next ==
    \/ \E cfg \in Configs : ExecuteWorkflow(cfg)
    \/ \E f \in DOMAIN frames :
           \E outcome \in {"ok", "fail", "true", "false"} :
               HandlerReturn(f, outcome)
    \/ \E f \in DOMAIN frames : ExecuteJobSettle(f)
    \/ \E f \in DOMAIN frames : AfterExecuteJob(f)
    \/ \E f \in DOMAIN frames : LaunchNextJobs(f)
    \/ \E f \in DOMAIN frames : AllSettled(f)
    \/ FinishWorkflow
    \/ cancelExecution

Spec == Init /\ [][Next]_vars

\* every handler invocation terminates and every continuation that is ready
\* is run by the event loop
Fairness ==
    /\ WF_vars(\E f \in DOMAIN frames :
                   \E outcome \in {"ok", "fail", "true", "false"} :
                       HandlerReturn(f, outcome))
    /\ WF_vars(\E f \in DOMAIN frames : ExecuteJobSettle(f))
    /\ WF_vars(\E f \in DOMAIN frames : AfterExecuteJob(f))
    /\ WF_vars(\E f \in DOMAIN frames : LaunchNextJobs(f))
    /\ WF_vars(\E f \in DOMAIN frames : AllSettled(f))
    /\ WF_vars(FinishWorkflow)

FairSpec == Spec /\ Fairness

\* the job documents of the executor's repeated calls
RunConfigs == {ChainConfig, NoStartConfig}

\* two executeWorkflow calls on one executor
NextRuns ==
    \/ \E cfg \in RunConfigs : ExecuteWorkflow(cfg)
    \/ \E cfg \in RunConfigs : ExecuteWorkflowAgain(cfg)
    \/ SwitchRun
    \/ \E f \in DOMAIN frames :
           \E outcome \in {"ok", "fail", "true", "false"} :
               HandlerReturn(f, outcome)
    \/ \E f \in DOMAIN frames : ExecuteJobSettle(f)
    \/ \E f \in DOMAIN frames : AfterExecuteJob(f)
    \/ \E f \in DOMAIN frames : LaunchNextJobs(f)
    \/ \E f \in DOMAIN frames : AllSettled(f)
    \/ FinishWorkflow
    \/ cancelExecution

SpecRuns == Init /\ [][NextRuns]_vars

(***************************************************************************)
(* Properties of the execution engine                                      *)
(***************************************************************************)
DependencyIds(cfg, id) ==
    {d.sourceJobId : d \in Range(FindJob(cfg, id).dependencies)}

\* the handler of job id is invoked by this step
Dispatched(id) ==
    /\ id \in DOMAIN handlerCalls'
    /\ handlerCalls'[id] >
           (IF id \in DOMAIN handlerCalls THEN handlerCalls[id] ELSE 0)

\* the frames whose handler is in flight for job id
InFlight(id) ==
    {f \in DOMAIN frames : frames[f].nodeId = id /\ frames[f].pc = "handler"}

\* C1: whenever a step dispatches the handler of a job (its JobResult becomes
\* running), every declared dependency of that job is in the executed set.
DispatchOnlyAfterDependencies ==
    [][\A id \in DOMAIN handlerCalls' :
          Dispatched(id) =>
              /\ jobResults'[id].status = "running"
              /\ DependencyIds(workflowConfig', id) \subseteq executedNodes]_vars

\* C1 witness: in the diamond, D (which depends on B and C) has been
\* dispatched.
DependentDispatched ==
    /\ workflowConfig = DiamondConfig
    /\ InFlight("D") # {}
    /\ {"B", "C"} \subseteq executedNodes

\* validity invariants 1-5 of the graph model, on the compiled job document
ConditionJobs(cfg) == {j \in Range(cfg.jobs) : j.isConditional}
Successors(cfg, id) ==
    IF HasJob(cfg, id)
    THEN {c.targetJobId : c \in Range(FindJob(cfg, id).connections)}
    ELSE {}

RECURSIVE ReachableIn(_, _, _)
ReachableIn(cfg, from, steps) ==
    IF steps = 0 THEN from
    ELSE ReachableIn(cfg,
             from \cup UNION {Successors(cfg, id) : id \in from}, steps - 1)

Acyclic(cfg) ==
    \A id \in JobIds(cfg) :
        id \notin ReachableIn(cfg, Successors(cfg, id), Len(cfg.jobs))

BranchDependencies(cfg, job) ==
    {i \in DOMAIN job.dependencies :
        /\ HasJob(cfg, job.dependencies[i].sourceJobId)
        /\ FindJob(cfg, job.dependencies[i].sourceJobId).isConditional
        /\ job.dependencies[i].condition \in {"true", "false"}}

SatisfiesValidityInvariants(cfg) ==
    /\ Cardinality({i \in DOMAIN cfg.jobs : cfg.jobs[i].type = "Start"}) = 1
    /\ \E j \in Range(cfg.jobs) :
           j.type = "Start" /\ j.nodeId = cfg.executionFlow.startNode
    /\ \A j \in Range(cfg.jobs) :
           \A c \in Range(j.connections) : HasJob(cfg, c.targetJobId)
    /\ \A j \in ConditionJobs(cfg) : \A port \in {"true", "false"} :
           Cardinality({i \in DOMAIN j.connections :
                            j.connections[i].condition = port}) <= 1
    /\ Acyclic(cfg)
    /\ \A j \in Range(cfg.jobs) :
           Len(j.dependencies) > 1 =>
               Cardinality(BranchDependencies(cfg, j))
                   >= Len(j.dependencies) - 1

\* C2: on a graph that satisfies validity invariants 1-5, every job's handler
\* is dispatched at most once and no two branches have the handler of the
\* same job in flight at the same time.
AtMostOneDispatchOnValidGraph ==
    SatisfiesValidityInvariants(workflowConfig) =>
        \A id \in DOMAIN handlerCalls :
            /\ handlerCalls[id] <= 1
            /\ Cardinality(InFlight(id)) <= 1

\* C3: in the diamond A->B, A->C, B->D, C->D the handler of D is dispatched
\* exactly once: not twice, and not zero times once the run has returned.
DiamondDispatchesDOnce ==
    workflowConfig = DiamondConfig =>
        /\ handlerCalls["D"] <= 1
        /\ runPc = "returned" => handlerCalls["D"] = 1

\* the frames that dispatched a handler and have started their next jobs
LaunchedFrames ==
    {f \in DOMAIN frames :
        /\ frames[f].outcome # Undefined
        /\ frames[f].pc \in {"await allSettled", "resolved"}}

ChildNodes(f) ==
    {frames[c].nodeId : c \in {x \in DOMAIN frames : frames[x].parent = f}}

FailedHandlers(id) ==
    {f \in DOMAIN frames : frames[f].nodeId = id /\ frames[f].outcome = "fail"}

\* a start job exists and every connection names an existing job
WellFormedConfig(cfg) ==
    /\ cfg.executionFlow.startNode \in JobIds(cfg)
    /\ \A j \in Range(cfg.jobs) :
           \A c \in Range(j.connections) : c.targetJobId \in JobIds(cfg)

SiblingsJoinedAndIndependent ==
    /\ \A f \in DOMAIN frames :
           (frames[f].pc = "resolved" /\ frames[f].outcome # Undefined)
               => \A c \in DOMAIN frames :
                      frames[c].parent = f
                          => frames[c].pc \in {"resolved", "rejected"}
    /\ \A f \in LaunchedFrames :
           Cardinality({c \in DOMAIN frames : frames[c].parent = f})
               = Len(frames[f].nextJobs)
    /\ workflowConfig = FanOutConfig =>
           /\ runPc = "returned" =>
                  \A id \in {"S", "P", "Q", "Q2"} :
                      /\ handlerCalls[id] = 1
                      /\ jobResults[id].status \in {"completed", "failed"}
           /\ (handlerCalls["P"] > 0) = (handlerCalls["Q"] > 0)

\* C5 witness: the handler of P has failed and the sibling branch goes on: the
\* handler of Q2 is in flight.
SiblingFailedOtherBranchRunning ==
    /\ workflowConfig = FanOutConfig
    /\ jobResults["P"].status = "failed"
    /\ InFlight("Q2") # {}

ConnectionTargets(job, ports) ==
    {c.targetJobId : c \in {x \in Range(job.connections) : x.condition \in ports}}

\* C6: a Condition job whose handler computed conditionResult b starts the
\* traversal of the targets of its connections tagged b and of nothing else; a
\* non-conditional job starts the traversal of the targets of its "out" and
\* "default" connections; in Start -> A, A{true -> T, false -> F} with A
\* evaluating to true, F is never dispatched and the executed set of the
\* returned run is {Start, A, T}.
ConditionalRouting ==
    /\ \A f \in LaunchedFrames :
           LET job == FindJob(workflowConfig, frames[f].nodeId)
           IN /\ (job.isConditional /\ frames[f].outcome \in {"true", "false"})
                    => ChildNodes(f) = ConnectionTargets(job, {frames[f].outcome})
              /\ ~job.isConditional
                    => ChildNodes(f) = ConnectionTargets(job, {"out", "default"})
    /\ (/\ workflowConfig = BranchConfig
        /\ jobResults["A"].result.conditionResult = "true")
           => /\ handlerCalls["F"] = 0
              /\ "F" \notin executedNodes
              /\ runPc = "returned" => executedNodes = {"Start", "A", "T"}

\* C6 witness: the run of the scenario has returned with A evaluated to true.
TrueBranchTaken ==
    /\ workflowConfig = BranchConfig
    /\ runPc = "returned"
    /\ jobResults["A"].result.conditionResult = "true"
    /\ jobResults["T"].status = "completed"

\* C7: in Start -> J -> End, once the handler of J has failed: End is not
\* dispatched before J is in the executed set; when End is dispatched the
\* first line of its log is the warning naming J as failed, ahead of anything
\* its handler writes; and the returned run has status completed with J
\* failed and End completed.
FailedDependencyDoesNotBlock ==
    (workflowConfig = ChainConfig /\ FailedHandlers("J") # {}) =>
        /\ handlerCalls["End"] > 0 =>
               /\ "J" \in executedNodes
               /\ jobResults["End"].logs # <<>>
               /\ Head(jobResults["End"].logs)
                      = <<"Warning", <<<<"J", "failed">>>>>>
        /\ runPc # "rejected"
        /\ runPc = "returned" =>
               /\ wfStatus = "completed"
               /\ jobResults["J"].status = "failed"
               /\ jobResults["End"].status = "completed"
               /\ handlerCalls["End"] = 1

\* C7 witness: the run has returned after J failed and End completed.
ChainReturnedAfterFailure ==
    /\ workflowConfig = ChainConfig
    /\ runPc = "returned"
    /\ jobResults["J"].status = "failed"
    /\ jobResults["End"].status = "completed"
    /\ Len(jobResults["End"].logs) = 2

MissingJobAbortsRun ==
    (/\ \E f \in DOMAIN frames : frames[f].pc = "rejected"
     /\ runPc \in {"returned", "rejected"})
        => /\ runPc = "rejected"
           /\ thrown = "JobNotFound"
           /\ wfStatus = "failed"

\* C10: a run of a job document without start node is rejected with the
\* engine-level error before any traversal: no handler is dispatched, no
\* onJobUpdate is made, every JobResult is pending, the status is failed and
\* onWorkflowUpdate has been called exactly once, with that status.
NoStartNodeRejects ==
    (runPc # "idle" /\ workflowConfig.executionFlow.startNode = Null) =>
        /\ runPc = "rejected"
        /\ thrown = "NoStartNode"
        /\ wfStatus = "failed"
        /\ wfEndTime
        /\ workflowUpdates = <<"failed">>
        /\ frames = <<>>
        /\ jobUpdates = <<>>
        /\ \A id \in DOMAIN jobResults :
               /\ handlerCalls[id] = 0
               /\ jobResults[id].status = "pending"

\* C10 witness: the run of the job document without Start node has been
\* rejected.
NoStartRunRejected ==
    /\ workflowConfig = NoStartConfig
    /\ runPc = "rejected"
    /\ DOMAIN jobResults = {"A", "B"}

\* C11: the status of a JobResult changes only along pending -> running,
\* running -> completed and running -> failed; a completed or failed
\* JobResult keeps its status.
StatusFollowsStateMachine ==
    [][\A id \in DOMAIN jobResults \cap DOMAIN jobResults' :
          jobResults'[id].status # jobResults[id].status =>
              <<jobResults[id].status, jobResults'[id].status>> \in
                  {<<"pending", "running">>, <<"running", "completed">>,
                   <<"running", "failed">>}]_vars

\* the frames a step creates
NewFrames == {f \in DOMAIN frames' : f \notin DOMAIN frames}

RunSettled == runPc \in {"returned", "rejected"}

\* C12: when every handler invocation terminates, a started run settles
\* (returned or rejected), also for a job document with a directed cycle; and
\* a visit of a job that is in the executed set resolves at once and
\* dispatches nothing.
RunSettlesAndRevisitIsNoOp ==
    /\ (runPc = "await executeFromNode") ~> RunSettled
    /\ [][/\ \A f \in NewFrames :
                 frames'[f].nodeId \in executedNodes
                     => /\ frames'[f].pc = "resolved"
                        /\ frames'[f].outcome = Undefined
          /\ \A id \in executedNodes :
                 handlerCalls'[id] = handlerCalls[id]]_vars

\* C12 witness: in the diamond a branch has revisited D after D entered the
\* executed set, and the run has returned with D dispatched once.
RevisitSkipped ==
    /\ workflowConfig = DiamondConfig
    /\ runPc = "returned"
    /\ handlerCalls["D"] = 1
    /\ \E i \in DOMAIN executionLogs :
           executionLogs[i] = <<"already executed, skipping", "D">>

NewJobUpdates ==
    SubSeq(jobUpdates', Len(jobUpdates) + 1, Len(jobUpdates'))

\* a step that changes a JobResult's status calls onJobUpdate with that status
JobStatusChangeNotified ==
    \A id \in DOMAIN jobResults' :
        (id \notin DOMAIN jobResults
             \/ jobResults'[id].status # jobResults[id].status)
        /\ jobResults'[id].status # "pending"
            => \E i \in DOMAIN NewJobUpdates :
                   NewJobUpdates[i] = <<id, jobResults'[id].status>>

\* a step that changes the WorkflowResult's status calls onWorkflowUpdate
\* with that status
WorkflowStatusChangeNotified ==
    wfStatus' # wfStatus =>
        workflowUpdates' = Append(workflowUpdates, wfStatus')

\* C14: every change of a JobResult's status is followed, in the same
\* synchronous block, by an onJobUpdate call carrying that status, and every
\* change of the WorkflowResult's status, entering running included, is
\* followed by an onWorkflowUpdate call.
HooksAtEveryTransition ==
    [][JobStatusChangeNotified /\ WorkflowStatusChangeNotified]_vars

\* the job ids of the scenario documents
AllJobIds == UNION {JobIds(cfg) : cfg \in Configs}

\* a step of cancelExecution during a run: the flag falls while the run is
\* still awaiting its traversal
CancelStep ==
    /\ isExecuting
    /\ ~isExecuting'
    /\ runPc' = "await executeFromNode"

\* C15: cancelExecution only clears the shared flag: the step leaves every
\* invocation, JobResult and log as it was, and a handler that is in flight
\* when the flag has been cleared still returns and its JobResult records
\* completed or failed according to the handler's own outcome.
CancellationDoesNotInterrupt ==
    /\ [][CancelStep =>
              /\ frames' = frames
              /\ jobResults' = jobResults
              /\ executionLogs' = executionLogs
              /\ executedNodes' = executedNodes
              /\ jobUpdates' = jobUpdates]_vars
    /\ [][\A f \in DOMAIN frames :
              frames[f].pc = "executeJob" /\ frames'[f].pc # "executeJob"
                  => jobResults'[frames[f].nodeId].status =
                         IF frames[f].outcome = "fail"
                         THEN "failed" ELSE "completed"]_vars
    /\ \A id \in AllJobIds :
           (~isExecuting /\ runPc = "await executeFromNode"
                /\ InFlight(id) # {})
               ~> (InFlight(id) = {}
                       /\ StatusOf(jobResults, id) \in {"completed", "failed"})

\* C15 witness: in the chain the flag has been cleared while the handler of J
\* is in flight.
CancelledWhileHandlerInFlight ==
    /\ workflowConfig = ChainConfig
    /\ runPc = "await executeFromNode"
    /\ ~isExecuting
    /\ InFlight("J") # {}

\* job n has a declared dependency that is not in the executed set
HasUnexecutedDependency(cfg, executed, n) ==
    HasJob(cfg, n) /\ DependencyIds(cfg, n) \ executed # {}

\* C16: a visit of job n that finds a declared dependency outside the
\* executed set resolves at once without dispatching n, and a resolved visit
\* never acts again; n is dispatched only by a new visit along an edge its
\* parent follows, made when all of n's dependencies are in the executed
\* set; a job that still has a dependency outside the executed set has never
\* been dispatched and is pending, also when the run has returned, which it
\* does with status completed.
DeferredVisitIsNotRetried ==
    /\ [](/\ \A n \in DOMAIN jobResults :
                 HasUnexecutedDependency(workflowConfig, executedNodes, n)
                     => /\ handlerCalls[n] = 0
                        /\ jobResults[n].status = "pending"
          /\ runPc = "returned" => wfStatus = "completed")
    /\ [][/\ \A f \in NewFrames :
                 HasUnexecutedDependency(workflowConfig, executedNodes,
                                         frames'[f].nodeId)
                     => /\ frames'[f].pc = "resolved"
                        /\ frames'[f].outcome = Undefined
                        /\ frames'[f].nextJobs = <<>>
          /\ \A f \in DOMAIN frames :
                 frames[f].pc = "resolved" => frames'[f] = frames[f]
          /\ \A n \in DOMAIN handlerCalls' :
                 Dispatched(n) =>
                     \E f \in NewFrames :
                         /\ frames'[f].nodeId = n
                         /\ frames'[f].pc = "handler"
                         /\ DependencyIds(workflowConfig', n)
                                \subseteq executedNodes'
                         /\ frames'[f].parent # 0 =>
                                n \in Range(frames'[frames'[f].parent]
                                                .nextJobs)]_vars

\* C16 witness: the condition took its false branch, the visit of N found T
\* outside the executed set, and the run has returned completed with N and T
\* pending.
DeferredJobPendingAtRunEnd ==
    /\ workflowConfig = UntakenConfig
    /\ runPc = "returned"
    /\ wfStatus = "completed"
    /\ jobResults["A"].result.conditionResult = "false"
    /\ jobResults["N"].status = "pending"
    /\ jobResults["T"].status = "pending"
    /\ \E i \in DOMAIN jobResults["N"].logs :
           jobResults["N"].logs[i][1] = "Waiting"

\* a step in which an executeWorkflow call starts
RunStarts ==
    \/ runPc = "idle" /\ runPc' # "idle"
    \/ otherRun = NoRun /\ otherRun' # NoRun

\* the JobResult table, run log and executed set a call has right after its
\* first synchronous block: every job of the document has a JobResult made
\* for this call, untouched except for the start job the block dispatched
FreshRunState(cfg, jr, logs, executed, calls) ==
    /\ executed = {}
    /\ DOMAIN jr = JobIds(cfg)
    /\ Head(logs)[1] = "Starting REAL workflow execution"
    /\ \A i \in DOMAIN logs :
           logs[i][1] \notin {"Completed", "Failed",
                              "Real workflow completed successfully"}
    /\ \A id \in JobIds(cfg) :
           /\ jr[id].result = NoResult
           /\ jr[id].error = Undefined
           /\ jr[id].logs = <<>>
           /\ ~jr[id].endTime
           /\ IF id = cfg.executionFlow.startNode
              THEN jr[id].status = "running" /\ calls[id] = 1
              ELSE jr[id].status = "pending" /\ calls[id] = 0

\* C17: every executeWorkflow call has a JobResult table, run log and
\* executed set of its own: a call starts with every JobResult new (pending,
\* but for the start job its first block dispatches) and an empty executed
\* set, also when it is the second call for the same job document; starting
\* it leaves the locals of the earlier call as they were, and no step of one
\* call changes the locals of the other.
RunsHaveTheirOwnState ==
    [][/\ RunStarts =>
              FreshRunState(workflowConfig', jobResults', executionLogs',
                            executedNodes', handlerCalls')
       /\ otherRun' # otherRun => otherRun' = RunLocals]_vars

\* C17 witness: a second call for the same job document has started after
\* the first one returned with J completed; J is pending in the second
\* call's table and completed in the first call's.
SecondRunStartsPending ==
    /\ otherRun.runPc = "returned"
    /\ otherRun.workflowConfig = ChainConfig
    /\ workflowConfig = ChainConfig
    /\ runPc = "await executeFromNode"
    /\ otherRun.jobResults["J"].status = "completed"
    /\ "J" \in otherRun.executedNodes
    /\ jobResults["J"].status = "pending"
    /\ executedNodes = {}

(***************************************************************************)
(* ExecutionModal: the builder's Execute Workflow path                     *)
(***************************************************************************)
\* node.type.replace("Node", "")
replaceNode(t) ==
    CASE t = "StartNode" -> "Start"
      [] t = "AddTaskNode" -> "AddTask"
      [] t = "ConditionNode" -> "Condition"
      [] t = "APICallNode" -> "APICall"
      [] t = "ScriptNode" -> "Script"
      [] t = "SendEmailNode" -> "SendEmail"
      [] t = "EndNode" -> "End"
      [] OTHER -> t

\* edge.output || "out"
OutputOrOut(output) == IF output = "" THEN "out" ELSE output

\* the workflowConfig handleExecute builds from the nodes and edges
handleExecuteConfig(nodes, graphEdges) ==
    LET connectionsOf(id) ==
            LET out == SelectSeqBy(graphEdges,
                                   {e \in Range(graphEdges) : e.from = id})
            IN [i \in DOMAIN out |->
                   [targetJobId |-> out[i].to,
                    condition |-> OutputOrOut(out[i].output)]]
        dependenciesOf(id) ==
            LET inc == SelectSeqBy(graphEdges,
                                   {e \in Range(graphEdges) : e.to = id})
            IN [i \in DOMAIN inc |->
                   [sourceJobId |-> inc[i].from,
                    condition |-> OutputOrOut(inc[i].output)]]
        jobs == [i \in DOMAIN nodes |->
                   [type |-> replaceNode(nodes[i].type),
                    nodeId |-> nodes[i].id,
                    connections |-> connectionsOf(nodes[i].id),
                    dependencies |-> dependenciesOf(nodes[i].id),
                    isConditional |-> nodes[i].type = "ConditionNode"]]
        starts == {i \in DOMAIN nodes : nodes[i].type = "StartNode"}
        firstStart == CHOOSE i \in starts : \A j \in starts : i <= j
    IN [jobs |-> jobs,
        executionFlow |->
            [startNode |-> IF starts = {} THEN Null ELSE nodes[firstStart].id,
             totalJobs |-> Len(nodes),
             hasConditionalFlow |->
                 \E i \in DOMAIN nodes : nodes[i].type = "ConditionNode"]]

\* E has the two parents S and A, neither of them a Condition node
TwoParentsNodes == <<Node("S", "StartNode"), Node("A", "AddTaskNode"),
                     Node("E", "EndNode")>>
TwoParentsEdges == <<Edge("S", "out", "A"), Edge("S", "out", "E"),
                     Edge("A", "out", "E")>>

\* the graphs a builder can hold: built by hand or loaded from a file
BuilderGraphs ==
    {NoGraph,
     [nodes |-> ChainNodes, edges |-> ChainEdges],
     [nodes |-> CycleNodes, edges |-> CycleEdges],
     [nodes |-> NoStartNodes, edges |-> NoStartEdges],
     [nodes |-> TwoParentsNodes, edges |-> TwoParentsEdges],
     [nodes |-> BranchNodes, edges |-> BranchEdges],
     [nodes |-> FanOutNodes, edges |-> FanOutEdges]}

\* importWorkflow(config): setNodes(config.nodes); setEdges(config.edges)
importWorkflow(config) ==
    /\ ~modalState.isExecuting
    /\ runPc = "idle"
    /\ modalProps' = config
    /\ UNCHANGED <<workflowConfig, runPc, wfStatus, wfEndTime, jobResults,
                   executionLogs, executedNodes, frames, isExecuting,
                   jobUpdates, workflowUpdates, handlerCalls, thrown,
                   otherRun, modalState, validatorVars, editorVars, handlerVars, otherVars>>

\* handleExecute up to the await of executor.executeWorkflow
handleExecute ==
    /\ ~modalState.isExecuting
    /\ runPc = "idle"
    /\ IF modalProps.nodes = <<>>
       THEN /\ modalState' = [modalState EXCEPT !.error = "No workflow to execute"]
            /\ UNCHANGED <<workflowConfig, runPc, wfStatus, wfEndTime,
                           jobResults, executionLogs, executedNodes, frames,
                           isExecuting, jobUpdates, workflowUpdates,
                           handlerCalls, thrown>>
       ELSE /\ modalState' = [isExecuting |-> TRUE, executionResult |-> FALSE,
                              error |-> Null]
            /\ executeWorkflow(handleExecuteConfig(modalProps.nodes,
                                                   modalProps.edges))
    /\ UNCHANGED <<otherRun, modalProps, validatorVars, editorVars, handlerVars, otherVars>>

\* handleExecute after the await: setExecutionResult, or setError in catch,
\* then setIsExecuting(false)
handleExecuteSettle ==
    /\ modalState.isExecuting
    /\ runPc \in {"returned", "rejected"}
    /\ modalState' = [isExecuting |-> FALSE,
                      executionResult |-> runPc = "returned",
                      error |-> IF runPc = "rejected" THEN thrown ELSE Null]
    /\ UNCHANGED <<workflowConfig, runPc, wfStatus, wfEndTime, jobResults,
                   executionLogs, executedNodes, frames, isExecuting,
                   jobUpdates, workflowUpdates, handlerCalls, thrown,
                   otherRun, modalProps, validatorVars, editorVars, handlerVars, otherVars>>

NextModal ==
    \/ \E config \in BuilderGraphs : importWorkflow(config)
    \/ handleExecute
    \/ handleExecuteSettle
    \/ \E f \in DOMAIN frames :
           \E outcome \in {"ok", "fail", "true", "false"} :
               HandlerReturn(f, outcome)
    \/ \E f \in DOMAIN frames : ExecuteJobSettle(f)
    \/ \E f \in DOMAIN frames : AfterExecuteJob(f)
    \/ \E f \in DOMAIN frames : LaunchNextJobs(f)
    \/ \E f \in DOMAIN frames : AllSettled(f)
    \/ FinishWorkflow

SpecModal == Init /\ [][NextModal]_vars

\* the graph has a directed cycle, a node with several parents that is not a
\* branch merge, or no Start node
ViolatesValidityInvariant(nodes, graphEdges) ==
    LET cfg == handleExecuteConfig(nodes, graphEdges)
    IN \/ ~Acyclic(cfg)
       \/ \E j \in Range(cfg.jobs) :
              /\ Len(j.dependencies) > 1
              /\ Cardinality(BranchDependencies(cfg, j))
                     < Len(j.dependencies) - 1
       \/ \A i \in DOMAIN nodes : nodes[i].type # "StartNode"

\* C18: when execution is started from the builder on a graph that violates
\* a validity invariant (a directed cycle, a multi-parent violation or a
\* missing Start node), no job handler is dispatched.
InvalidGraphDispatchesNothing ==
    (/\ modalProps.nodes # <<>>
     /\ ViolatesValidityInvariant(modalProps.nodes, modalProps.edges))
        => \A id \in DOMAIN handlerCalls : handlerCalls[id] = 0

(***************************************************************************)
(* Cycle detection: WorkflowUtils.wouldCreateCycle and                     *)
(* TreeValidator.wouldCreateCycle                                          *)
(***************************************************************************)
MaxCycleEdges == 3
CycleNodeIds == {"a", "b", "c"}

\* the existing edges of a call, as WorkflowEdge { from, to }
CycleEdgeLists ==
    UNION {[1..n -> [from : CycleNodeIds, to : CycleNodeIds]] :
               n \in 0..MaxCycleEdges}

\* the canvas hands TreeValidator the same edges as { source, target }
toFlowEdges(workflowEdges) ==
    [i \in DOMAIN workflowEdges |->
        [source |-> workflowEdges[i].from, target |-> workflowEdges[i].to]]

\* the entries of a Set or the keys of a Map, in insertion order
RECURSIVE InsertionOrder(_, _)
InsertionOrder(s, seen) ==
    IF s = <<>> THEN <<>>
    ELSE IF Head(s) \in seen
         THEN InsertionOrder(Tail(s), seen)
         ELSE <<Head(s)>> \o InsertionOrder(Tail(s), seen \cup {Head(s)})

\* the DFS state both implementations close over
NewSearch == [visited |-> {}, recursionStack |-> {}, found |-> FALSE]

\* a search that leaves finished nodes on the recursion stack
recursionStackKeep(recursionStack, nodeId) == recursionStack

\* recursionStack.delete(nodeId)
recursionStackDelete(recursionStack, nodeId) == recursionStack \ {nodeId}

\* WorkflowUtils: Map<string, Set<string>> of the existing edges and then the
\* proposed edge; graph.keys() and graph.get(nodeId)
UtilsGraph(fromNodeId, toNodeId, existingEdges) ==
    Append(existingEdges, [from |-> fromNodeId, to |-> toNodeId])

UtilsKeys(graph) ==
    InsertionOrder([i \in DOMAIN graph |-> graph[i].from], {})

UtilsNeighbors(graph, nodeId) ==
    LET out == SelectSeqBy(graph, {e \in Range(graph) : e.from = nodeId})
    IN InsertionOrder([i \in DOMAIN out |-> out[i].to], {})

\* WorkflowUtils: hasCycle(nodeId) and its loop over the neighbors
RECURSIVE UtilsHasCycle(_, _, _)
RECURSIVE UtilsHasCycleAmong(_, _, _)
UtilsHasCycle(graph, nodeId, search) ==
    IF nodeId \in search.recursionStack
    THEN [search EXCEPT !.found = TRUE]
    ELSE IF nodeId \in search.visited
    THEN [search EXCEPT !.found = FALSE]
    ELSE LET s1 == [search EXCEPT
                       !.visited = @ \cup {nodeId},
                       !.recursionStack = @ \cup {nodeId}]
             s2 == UtilsHasCycleAmong(graph, UtilsNeighbors(graph, nodeId),
                                      s1)
         IN IF s2.found THEN s2
            ELSE [s2 EXCEPT
                    !.recursionStack = recursionStackDelete(@, nodeId),
                    !.found = FALSE]

UtilsHasCycleAmong(graph, neighbors, search) ==
    IF neighbors = <<>> THEN [search EXCEPT !.found = FALSE]
    ELSE LET s1 == UtilsHasCycle(graph, Head(neighbors), search)
         IN IF s1.found THEN s1
            ELSE UtilsHasCycleAmong(graph, Tail(neighbors), s1)

\* WorkflowUtils: for (const nodeId of graph.keys()) if (!visited.has(nodeId))
RECURSIVE UtilsCheckAllNodes(_, _, _)
UtilsCheckAllNodes(graph, keys, search) ==
    IF keys = <<>> THEN FALSE
    ELSE IF Head(keys) \in search.visited
         THEN UtilsCheckAllNodes(graph, Tail(keys), search)
         ELSE LET s1 == UtilsHasCycle(graph, Head(keys), search)
              IN IF s1.found THEN TRUE
                 ELSE UtilsCheckAllNodes(graph, Tail(keys), s1)

WorkflowUtilsWouldCreateCycle(fromNodeId, toNodeId, existingEdges) ==
    LET graph == UtilsGraph(fromNodeId, toNodeId, existingEdges)
    IN UtilsCheckAllNodes(graph, UtilsKeys(graph), NewSearch)

\* TreeValidator: Map<string, string[]>; a repeated edge is pushed again
TreeGraph(flowEdges, sourceId, targetId) ==
    Append(flowEdges, [source |-> sourceId, target |-> targetId])

TreeKeys(graph) ==
    InsertionOrder([i \in DOMAIN graph |-> graph[i].source], {})

TreeNeighbors(graph, node) ==
    LET out == SelectSeqBy(graph, {e \in Range(graph) : e.source = node})
    IN [i \in DOMAIN out |-> out[i].target]

\* TreeValidator: hasCycle(node) and its loop over the neighbors
RECURSIVE TreeHasCycle(_, _, _)
RECURSIVE TreeHasCycleAmong(_, _, _)
TreeHasCycle(graph, node, search) ==
    IF node \in search.recursionStack
    THEN [search EXCEPT !.found = TRUE]
    ELSE IF node \in search.visited
    THEN [search EXCEPT !.found = FALSE]
    ELSE LET s1 == [search EXCEPT
                       !.visited = @ \cup {node},
                       !.recursionStack = @ \cup {node}]
             s2 == TreeHasCycleAmong(graph, TreeNeighbors(graph, node), s1)
         IN IF s2.found THEN s2
            ELSE [s2 EXCEPT !.recursionStack = @ \ {node},
                            !.found = FALSE]

TreeHasCycleAmong(graph, neighbors, search) ==
    IF neighbors = <<>> THEN [search EXCEPT !.found = FALSE]
    ELSE LET s1 == TreeHasCycle(graph, Head(neighbors), search)
         IN IF s1.found THEN s1
            ELSE TreeHasCycleAmong(graph, Tail(neighbors), s1)

\* TreeValidator: for (const nodeId of graph.keys())
RECURSIVE TreeCheckAllNodes(_, _, _)
TreeCheckAllNodes(graph, keys, search) ==
    IF keys = <<>> THEN FALSE
    ELSE IF Head(keys) \in search.visited
         THEN TreeCheckAllNodes(graph, Tail(keys), search)
         ELSE LET s1 == TreeHasCycle(graph, Head(keys), search)
              IN IF s1.found THEN TRUE
                 ELSE TreeCheckAllNodes(graph, Tail(keys), s1)

TreeValidatorWouldCreateCycle(flowEdges, sourceId, targetId) ==
    LET graph == TreeGraph(flowEdges, sourceId, targetId)
    IN TreeCheckAllNodes(graph, TreeKeys(graph), NewSearch)

\* a call of either implementation with any edge list and any proposed edge
InitCycle ==
    /\ workflowConfig = NoConfig
    /\ runPc = "idle"
    /\ wfStatus = Undefined
    /\ wfEndTime = FALSE
    /\ jobResults = <<>>
    /\ executionLogs = <<>>
    /\ executedNodes = {}
    /\ frames = <<>>
    /\ isExecuting = FALSE
    /\ jobUpdates = <<>>
    /\ workflowUpdates = <<>>
    /\ handlerCalls = <<>>
    /\ thrown = Undefined
    /\ otherRun = NoRun
    /\ modalProps = NoGraph
    /\ modalState = ModalClosed
    /\ cycleArgs \in [edges : CycleEdgeLists, source : CycleNodeIds,
                      target : CycleNodeIds]
    /\ cycleResult = NoCycleResult
    /\ graphArgs = NoGraphArgs
    /\ graphResult = NoGraphResult
    /\ nodesState = <<>>
    /\ edgesState = <<>>
    /\ nodesRef = <<>>
    /\ edgesRef = <<>>
    /\ autoConnectTimers = <<>>
    /\ generatedIds = 0
    /\ stateUpdates = 0
    /\ scriptJob = NoScriptJob
    /\ apiJob = NoApiJob
    /\ mockRun = NoMockRun
    /\ monitor = NoMonitor

CallWorkflowUtilsWouldCreateCycle ==
    /\ ~cycleResult.utilsCalled
    /\ cycleResult' =
           [cycleResult EXCEPT
              !.utilsCalled = TRUE,
              !.utils = WorkflowUtilsWouldCreateCycle(
                            cycleArgs.source, cycleArgs.target,
                            cycleArgs.edges)]
    /\ UNCHANGED <<workflowConfig, runPc, wfStatus, wfEndTime, jobResults,
                   executionLogs, executedNodes, frames, isExecuting,
                   jobUpdates, workflowUpdates, handlerCalls, thrown,
                   otherRun, modalVars, cycleArgs, graphArgs, graphResult,
                   editorVars, handlerVars, otherVars>>

CallTreeValidatorWouldCreateCycle ==
    /\ ~cycleResult.treeCalled
    /\ cycleResult' =
           [cycleResult EXCEPT
              !.treeCalled = TRUE,
              !.tree = TreeValidatorWouldCreateCycle(
                           toFlowEdges(cycleArgs.edges),
                           cycleArgs.source, cycleArgs.target)]
    /\ UNCHANGED <<workflowConfig, runPc, wfStatus, wfEndTime, jobResults,
                   executionLogs, executedNodes, frames, isExecuting,
                   jobUpdates, workflowUpdates, handlerCalls, thrown,
                   otherRun, modalVars, cycleArgs, graphArgs, graphResult,
                   editorVars, handlerVars, otherVars>>

NextCycle ==
    \/ CallWorkflowUtilsWouldCreateCycle
    \/ CallTreeValidatorWouldCreateCycle

SpecCycle == InitCycle /\ [][NextCycle]_vars

\* the nodes reached from the nodes of from by one to steps edges of pairs
RECURSIVE ReachedBy(_, _, _)
ReachedBy(pairs, from, steps) ==
    LET next == {p[2] : p \in {q \in pairs : q[1] \in from}}
    IN IF steps <= 1 THEN next
       ELSE next \cup ReachedBy(pairs, next, steps - 1)

\* the existing edges plus the proposed edge contain a directed cycle
HasDirectedCycle(args) ==
    LET pairs == {<<args.edges[i].from, args.edges[i].to>> :
                      i \in DOMAIN args.edges}
                 \cup {<<args.source, args.target>>}
    IN \E n \in CycleNodeIds :
           n \in ReachedBy(pairs, {n}, Cardinality(CycleNodeIds))

\* C19: each wouldCreateCycle implementation returns true exactly when the
\* existing edges plus the proposed edge contain a directed cycle (a
\* self-loop included), so the two return the same answer.
WouldCreateCycleIsCycleTest ==
    /\ cycleResult.utilsCalled =>
           cycleResult.utils = HasDirectedCycle(cycleArgs)
    /\ cycleResult.treeCalled =>
           cycleResult.tree = HasDirectedCycle(cycleArgs)
    /\ cycleResult.utilsCalled /\ cycleResult.treeCalled =>
           cycleResult.utils = cycleResult.tree

\* C19 witness: both implementations have answered false for the proposed
\* edge a -> c next to the path a -> b -> c, where c is reached twice but no
\* cycle is closed.
BothAnsweredOnConvergingPaths ==
    /\ cycleResult.utilsCalled
    /\ cycleResult.treeCalled
    /\ cycleArgs.edges = <<[from |-> "a", to |-> "b"],
                           [from |-> "b", to |-> "c"]>>
    /\ cycleArgs.source = "a"
    /\ cycleArgs.target = "c"
    /\ ~cycleResult.utils
    /\ ~cycleResult.tree

(***************************************************************************)
(* Connections: useWorkflow.addEdge and WorkflowUtils.validateConnection   *)
(***************************************************************************)
Handle(id, type) == [id |-> id, type |-> type]

\* NODE_CONFIGS[nodeType].handles
createNodeHandles(nodeType) ==
    CASE nodeType = "StartNode" -> <<Handle("out", "output")>>
      [] nodeType = "ConditionNode" ->
             <<Handle("in", "input"), Handle("true", "output"),
               Handle("false", "output")>>
      [] nodeType = "EndNode" -> <<Handle("in", "input")>>
      [] OTHER -> <<Handle("in", "input"), Handle("out", "output")>>

WorkflowNode(id, type) ==
    [id |-> id, type |-> type, handles |-> createNodeHandles(type)]

\* the nodes of the connection scenario: a start, a condition, a task and
\* an end node
ConnectNodes == <<WorkflowNode("S", "StartNode"),
                  WorkflowNode("C", "ConditionNode"),
                  WorkflowNode("B", "AddTaskNode"),
                  WorkflowNode("M", "EndNode")>>

\* the node ids and handle ids a connection request can name
RequestNodeIds == {"S", "C", "B", "M"}
RequestOutputIds == {"out", "true", "false"}
RequestInputIds == {"in"}

\* the editor holds at most MaxEdges edges and has created at most MaxNodes
\* nodes
MaxEdges == 2
MaxNodes == 2

\* at most MaxUpdates calls of setNodes and setEdges lie between two
\* renders
MaxUpdates == 2

\* what lies outside the editor
besideEditor == <<workflowConfig, runPc, wfStatus, wfEndTime, jobResults,
                  executionLogs, executedNodes, frames, isExecuting,
                  jobUpdates, workflowUpdates, handlerCalls, thrown,
                  otherRun, modalVars, validatorVars, handlerVars, otherVars>>

NodeIds(nodes) == {nodes[i].id : i \in DOMAIN nodes}

\* nodesRef.current.find((n) => n.id === nodeId)
FindNode(nodeId) ==
    LET hits == {i \in DOMAIN nodesRef : nodesRef[i].id = nodeId}
    IN IF hits = {} THEN Undefined
       ELSE nodesRef[CHOOSE i \in hits : \A j \in hits : i <= j]

\* the render of useWorkflow: the useMemo that refreshes nodesRef.current
\* and edgesRef.current from the state
Render ==
    /\ <<nodesRef, edgesRef>> # <<nodesState, edgesState>>
    /\ nodesRef' = nodesState
    /\ edgesRef' = edgesState
    /\ stateUpdates' = 0
    /\ UNCHANGED <<nodesState, edgesState, autoConnectTimers, generatedIds,
                   besideEditor>>

\* WorkflowUtils.createEdge
createEdge(fromNodeId, outputHandle, toNodeId, inputHandle) ==
    [from |-> fromNodeId, output |-> outputHandle, to |-> toNodeId,
     input |-> inputHandle]

\* WorkflowUtils.validateConnection
validateConnection(sourceNode, sourceHandle, targetNode, targetHandle, existingEdges) ==
    LET sourceHandleExists ==
            \E h \in Range(sourceNode.handles) :
                h.id = sourceHandle /\ h.type = "output"
        targetHandleExists ==
            \E h \in Range(targetNode.handles) :
                h.id = targetHandle /\ h.type = "input"
        existingConnection ==
            \E e \in Range(existingEdges) :
                e.to = targetNode.id /\ e.input = targetHandle
    IN IF ~sourceHandleExists
       THEN [canConnect |-> FALSE, reason |-> "Source handle does not exist"]
       ELSE IF ~targetHandleExists
       THEN [canConnect |-> FALSE, reason |-> "Target handle does not exist"]
       ELSE IF sourceNode.id = targetNode.id
       THEN [canConnect |-> FALSE, reason |-> "Cannot connect node to itself"]
       ELSE IF existingConnection
       THEN [canConnect |-> FALSE,
             reason |-> "Target input is already connected"]
       ELSE IF WorkflowUtilsWouldCreateCycle(
                   sourceNode.id, targetNode.id,
                   [i \in DOMAIN existingEdges |->
                       [from |-> existingEdges[i].from,
                        to |-> existingEdges[i].to]])
       THEN [canConnect |-> FALSE,
             reason |-> "Connection would create a cycle (DAG violation)"]
       ELSE [canConnect |-> TRUE, reason |-> Undefined]

\* useWorkflow.addEdge: the connection is validated against the snapshots
\* nodesRef.current and edgesRef.current, the new edge is appended to the
\* edges of the state
addEdge(fromNodeId, outputHandle, toNodeId, inputHandle) ==
    LET sourceNode == FindNode(fromNodeId)
        targetNode == FindNode(toNodeId)
    IN /\ Len(edgesState) + Len(autoConnectTimers) < MaxEdges
       /\ stateUpdates < MaxUpdates
       /\ IF fromNodeId \notin NodeIds(nodesRef)
             \/ toNodeId \notin NodeIds(nodesRef)
          THEN UNCHANGED <<edgesState, stateUpdates>>
          ELSE IF validateConnection(sourceNode, outputHandle, targetNode,
                                     inputHandle, edgesRef).canConnect
          THEN /\ edgesState' =
                      Append(edgesState,
                             createEdge(fromNodeId, outputHandle, toNodeId,
                                        inputHandle))
               /\ stateUpdates' = stateUpdates + 1
          ELSE UNCHANGED <<edgesState, stateUpdates>>
       /\ UNCHANGED <<nodesState, nodesRef, edgesRef, autoConnectTimers,
                      generatedIds, besideEditor>>

InitConnect ==
    /\ workflowConfig = NoConfig
    /\ runPc = "idle"
    /\ wfStatus = Undefined
    /\ wfEndTime = FALSE
    /\ jobResults = <<>>
    /\ executionLogs = <<>>
    /\ executedNodes = {}
    /\ frames = <<>>
    /\ isExecuting = FALSE
    /\ jobUpdates = <<>>
    /\ workflowUpdates = <<>>
    /\ handlerCalls = <<>>
    /\ thrown = Undefined
    /\ otherRun = NoRun
    /\ modalProps = NoGraph
    /\ modalState = ModalClosed
    /\ cycleArgs = NoCycleArgs
    /\ cycleResult = NoCycleResult
    /\ graphArgs = NoGraphArgs
    /\ graphResult = NoGraphResult
    /\ nodesState = ConnectNodes
    /\ edgesState = <<>>
    /\ nodesRef = ConnectNodes
    /\ edgesRef = <<>>
    /\ autoConnectTimers = <<>>
    /\ generatedIds = 0
    /\ stateUpdates = 0
    /\ scriptJob = NoScriptJob
    /\ apiJob = NoApiJob
    /\ mockRun = NoMockRun
    /\ monitor = NoMonitor

NextConnect ==
    \/ \E fromNodeId \in RequestNodeIds, toNodeId \in RequestNodeIds :
           \E outputHandle \in RequestOutputIds,
              inputHandle \in RequestInputIds :
               addEdge(fromNodeId, outputHandle, toNodeId, inputHandle)
    \/ Render

SpecConnect == InitConnect /\ [][NextConnect]_vars

\* the target input of the connection already has an incoming edge
TargetInputOccupied(toNodeId, inputHandle) ==
    \E e \in Range(edgesRef) : e.to = toNodeId /\ e.input = inputHandle

\* the connection leaves a true or false port of a Condition node
FromConditionBranch(fromNodeId, outputHandle) ==
    /\ FindNode(fromNodeId).type = "ConditionNode"
    /\ outputHandle \in {"true", "false"}

\* the rendered edges plus the edge of the connection contain a directed
\* cycle
ClosesCycle(fromNodeId, toNodeId) ==
    LET pairs == {<<e.from, e.to>> : e \in Range(edgesRef)}
                 \cup {<<fromNodeId, toNodeId>>}
    IN \E n \in NodeIds(nodesRef) :
           n \in ReachedBy(pairs, {n}, Len(nodesRef))

\* C20: validateConnection rejects a connection whose source output port or
\* target input port does not exist, a self-loop, a connection to an
\* occupied target input and a cycle-forming connection, except that a
\* connection from a true or false port of a Condition node to an occupied
\* target input is accepted when it closes no cycle; every other connection
\* is accepted.  Stated for every connection addEdge can be asked for in
\* the rendered editor.
ValidateConnectionHonorsBranchMerge ==
    \A fromNodeId \in NodeIds(nodesRef), toNodeId \in NodeIds(nodesRef) :
        \A outputHandle \in RequestOutputIds,
           inputHandle \in RequestInputIds :
            validateConnection(FindNode(fromNodeId), outputHandle,
                               FindNode(toNodeId), inputHandle,
                               edgesRef).canConnect =
                (/\ \E h \in Range(FindNode(fromNodeId).handles) :
                        h.id = outputHandle /\ h.type = "output"
                 /\ \E h \in Range(FindNode(toNodeId).handles) :
                        h.id = inputHandle /\ h.type = "input"
                 /\ fromNodeId # toNodeId
                 /\ ~ClosesCycle(fromNodeId, toNodeId)
                 /\ TargetInputOccupied(toNodeId, inputHandle)
                        => FromConditionBranch(fromNodeId, outputHandle))

(***************************************************************************)
(* The editor: the operations of useWorkflow and of the canvas             *)
(***************************************************************************)
\* the ids generateId hands out, in the order it hands them out
NodeIdPool == <<"n1", "n2", "n3", "n4", "n5", "n6">>
NodeTypes == {"StartNode", "ConditionNode", "AddTaskNode"}
Directions == {"top", "bottom", "right"}

\* WorkflowUtils.generateId
generateId == NodeIdPool[generatedIds + 1]

\* WorkflowUtils.createNode
createNode(type) == WorkflowNode(generateId, type)

\* config.handles.find((h) => h.type === wanted) finds a handle
HasHandle(type, wanted) ==
    \E h \in Range(createNodeHandles(type)) : h.type = wanted

\* config.handles.find((h) => h.type === wanted)
FirstHandle(type, wanted) ==
    LET handles == SelectSeqBy(createNodeHandles(type),
                               {h \in Range(createNodeHandles(type)) :
                                   h.type = wanted})
    IN IF handles = <<>> THEN Undefined ELSE Head(handles)

\* useWorkflow.addNode
addNode(type) ==
    /\ generatedIds < MaxNodes
    /\ stateUpdates < MaxUpdates
    /\ nodesState' = Append(nodesState, createNode(type))
    /\ generatedIds' = generatedIds + 1
    /\ stateUpdates' = stateUpdates + 1
    /\ UNCHANGED <<edgesState, nodesRef, edgesRef, autoConnectTimers,
                   besideEditor>>

\* the output handle addNodeWithContext connects from
AutoConnectOutput(sourceNode, direction) ==
    IF sourceNode.type = "ConditionNode"
    THEN IF direction = "top" THEN "true"
         ELSE IF direction = "bottom" THEN "false"
         ELSE FirstHandle(sourceNode.type, "output").id
    ELSE FirstHandle(sourceNode.type, "output").id

\* useWorkflow.addNodeWithContext with context.afterNodeId and
\* context.direction set: the edge to the new node is appended by a
\* setTimeout callback, without validateConnection
addNodeWithContext(type, afterNodeId, direction) ==
    LET newNode == createNode(type)
        sourceNode == FindNode(afterNodeId)
        autoConnects ==
            /\ afterNodeId \in NodeIds(nodesRef)
            /\ HasHandle(sourceNode.type, "output")
            /\ HasHandle(type, "input")
    IN /\ generatedIds < MaxNodes
       /\ Len(edgesState) + Len(autoConnectTimers) < MaxEdges
       /\ stateUpdates < MaxUpdates
       /\ nodesState' = Append(nodesState, newNode)
       /\ generatedIds' = generatedIds + 1
       /\ stateUpdates' = stateUpdates + 1
       /\ autoConnectTimers' =
              IF autoConnects
              THEN Append(autoConnectTimers,
                          createEdge(afterNodeId,
                                     AutoConnectOutput(sourceNode, direction),
                                     newNode.id,
                                     FirstHandle(type, "input").id))
              ELSE autoConnectTimers
       /\ UNCHANGED <<edgesState, nodesRef, edgesRef, besideEditor>>

\* the setTimeout callback of addNodeWithContext
AutoConnect ==
    /\ autoConnectTimers # <<>>
    /\ stateUpdates < MaxUpdates
    /\ edgesState' = Append(edgesState, Head(autoConnectTimers))
    /\ autoConnectTimers' = Tail(autoConnectTimers)
    /\ stateUpdates' = stateUpdates + 1
    /\ UNCHANGED <<nodesState, nodesRef, edgesRef, generatedIds,
                   besideEditor>>

\* useWorkflow.duplicateNode: nodes is the state as of the last render
duplicateNode(nodeId) ==
    /\ generatedIds < MaxNodes
    /\ stateUpdates < MaxUpdates
    /\ IF nodeId \notin NodeIds(nodesRef)
       THEN UNCHANGED <<nodesState, generatedIds, stateUpdates>>
       ELSE /\ nodesState' =
                   Append(nodesState, createNode(FindNode(nodeId).type))
            /\ generatedIds' = generatedIds + 1
            /\ stateUpdates' = stateUpdates + 1
    /\ UNCHANGED <<edgesState, nodesRef, edgesRef, autoConnectTimers,
                   besideEditor>>

\* useWorkflow.deleteNode
deleteNode(nodeId) ==
    /\ stateUpdates < MaxUpdates
    /\ stateUpdates' = stateUpdates + 1
    /\ nodesState' =
           SelectSeqBy(nodesState,
                       {n \in Range(nodesState) : n.id # nodeId})
    /\ edgesState' =
           SelectSeqBy(edgesState,
                       {e \in Range(edgesState) :
                           e.from # nodeId /\ e.to # nodeId})
    /\ UNCHANGED <<nodesRef, edgesRef, autoConnectTimers, generatedIds,
                   besideEditor>>

\* useWorkflow.deleteEdge: the edge id is the position of a rendered edge
\* that the state still holds
deleteEdge(edgeId) ==
    /\ edgeId \in DOMAIN edgesRef
    /\ edgeId \in DOMAIN edgesState
    /\ edgesState[edgeId] = edgesRef[edgeId]
    /\ stateUpdates < MaxUpdates
    /\ stateUpdates' = stateUpdates + 1
    /\ edgesState' =
           [i \in 1..(Len(edgesState) - 1) |->
               IF i < edgeId THEN edgesState[i] ELSE edgesState[i + 1]]
    /\ UNCHANGED <<nodesState, nodesRef, edgesRef, autoConnectTimers,
                   generatedIds, besideEditor>>

\* WorkflowCanvas: reactFlowEdges, computed at render from the edges prop
reactFlowEdges ==
    [i \in DOMAIN edgesRef |->
        [source |-> edgesRef[i].from, target |-> edgesRef[i].to,
         sourceHandle |-> edgesRef[i].output,
         targetHandle |-> edgesRef[i].input]]

\* TreeValidator.hasParent
hasParent(flowEdges, targetId) ==
    \E e \in Range(flowEdges) : e.target = targetId

\* WorkflowCanvas.onConnect: the errors it collects
onConnectErrors(source, sourceHandle, target) ==
    LET sourceNode == FindNode(source)
        isFromConditionalNode ==
            /\ source \in NodeIds(nodesRef)
            /\ sourceNode.type = "ConditionNode"
            /\ sourceHandle \in {"true", "false"}
    IN (IF hasParent(reactFlowEdges, target) /\ ~isFromConditionalNode
        THEN {"already has a parent"} ELSE {})
       \cup
       (IF TreeValidatorWouldCreateCycle(toFlowEdges(edgesRef), source,
                                         target)
        THEN {"would create a cycle"} ELSE {})
       \cup
       (IF source = target THEN {"cannot connect to itself"} ELSE {})
       \cup
       (IF /\ source \in NodeIds(nodesRef)
           /\ sourceNode.type = "ConditionNode"
           /\ \E e \in Range(reactFlowEdges) :
                  e.source = source /\ e.sourceHandle = sourceHandle
        THEN {"branch already has a connection"} ELSE {})

\* WorkflowCanvas.onConnect
onConnect(source, sourceHandle, target, targetHandle) ==
    IF onConnectErrors(source, sourceHandle, target) # {}
    THEN /\ Len(edgesState) + Len(autoConnectTimers) < MaxEdges
         /\ stateUpdates < MaxUpdates
         /\ UNCHANGED vars
    ELSE addEdge(source, sourceHandle, target, targetHandle)

\* WorkflowCanvas.onDrop: workflowNodes is the nodes prop of the last render
onDrop(nodeType) ==
    IF /\ nodeType = "StartNode"
       /\ \E n \in Range(nodesRef) : n.type = "StartNode"
    THEN /\ generatedIds < MaxNodes
         /\ stateUpdates < MaxUpdates
         /\ UNCHANGED vars
    ELSE addNode(nodeType)

NextEditor ==
    \/ \E type \in NodeTypes : addNode(type)
    \/ \E type \in NodeTypes, afterNodeId \in NodeIds(nodesRef),
          direction \in Directions :
           addNodeWithContext(type, afterNodeId, direction)
    \/ AutoConnect
    \/ \E nodeId \in NodeIds(nodesRef) : duplicateNode(nodeId)
    \/ \E nodeId \in NodeIds(nodesRef) : deleteNode(nodeId)
    \/ \E edgeId \in DOMAIN edgesRef : deleteEdge(edgeId)
    \/ \E fromNodeId \in NodeIds(nodesRef), toNodeId \in NodeIds(nodesRef) :
           \E outputHandle \in RequestOutputIds,
              inputHandle \in RequestInputIds :
               addEdge(fromNodeId, outputHandle, toNodeId, inputHandle)
    \/ \E source \in NodeIds(nodesRef), target \in NodeIds(nodesRef) :
           \E sourceHandle \in RequestOutputIds,
              targetHandle \in RequestInputIds :
               onConnect(source, sourceHandle, target, targetHandle)
    \/ \E nodeType \in NodeTypes : onDrop(nodeType)
    \/ Render

SpecEditor == Init /\ [][NextEditor]_vars


\* the directed pairs of a list of edges
EdgePairs(edgeList) == {<<e.from, e.to>> : e \in Range(edgeList)}

\* a list of edges contains a directed cycle
HasDirectedCycleIn(edgeList) ==
    \E e \in Range(edgeList) :
        e.from \in ReachedBy(EdgePairs(edgeList), {e.from}, Len(edgeList))

\* C21: starting from an empty workflow, after any sequence of addNode,
\* addNodeWithContext, duplicateNode, addEdge, deleteEdge and deleteNode the
\* edge set contains no directed cycle, and an addEdge call for a connection
\* that closes a cycle in the edge set leaves the edge set unchanged, also
\* when several addEdge calls are issued before the edge snapshot used for
\* validation is refreshed.
EditorEdgesStayAcyclic ==
    /\ [](~HasDirectedCycleIn(edgesState))
    /\ [][\A fromNodeId \in NodeIds(nodesRef), toNodeId \in NodeIds(nodesRef) :
            \A outputHandle \in RequestOutputIds,
               inputHandle \in RequestInputIds :
                (/\ addEdge(fromNodeId, outputHandle, toNodeId, inputHandle)
                 /\ HasDirectedCycleIn(
                        Append(edgesState,
                               createEdge(fromNodeId, outputHandle, toNodeId,
                                          inputHandle))))
                    => edgesState' = edgesState]_vars


\* C22: after any sequence of addNode, addNodeWithContext, addEdge,
\* deleteEdge and deleteNode, no input port of any node is the target of
\* more than one edge.
InputPortsHaveOneEdge ==
    \A i \in DOMAIN edgesState, j \in DOMAIN edgesState :
        (/\ edgesState[i].to = edgesState[j].to
         /\ edgesState[i].input = edgesState[j].input)
            => i = j


(***************************************************************************)
(* Validation: TreeValidator.validateTree and WorkflowUtils.validateWorkflow *)
(***************************************************************************)
\* TreeValidator.detectCycles: the graph has a key per node, then per edge
\* source
detectCycles(nodes, flowEdges) ==
    TreeCheckAllNodes(
        flowEdges,
        InsertionOrder([i \in DOMAIN nodes |-> nodes[i].id]
                       \o [i \in DOMAIN flowEdges |-> flowEdges[i].source],
                       {}),
        NewSearch)

\* validateTree: targetCounts.get(nodeId)
targetCount(flowEdges, nodeId) ==
    Cardinality({i \in DOMAIN flowEdges : flowEdges[i].target = nodeId})

\* validateTree: the targets of an edge that leaves a true or false handle of
\* a Condition node
conditionalTargets(nodes, flowEdges) ==
    {e.target : e \in
        {f \in Range(flowEdges) :
            /\ \E n \in Range(nodes) :
                   n.id = f.source /\ n.type = "ConditionNode"
            /\ f.sourceHandle \in {"true", "false"}}}

MultipleParentsError(nodeId) == [kind |-> "multiple parents", node |-> nodeId]
CyclesError == [kind |-> "cycles", node |-> Null]

\* TreeValidator.validateTree
validateTree(nodes, flowEdges) ==
    LET targets ==
            InsertionOrder([i \in DOMAIN flowEdges |-> flowEdges[i].target],
                           {})
        multiple ==
            SelectSeqBy(targets,
                        {t \in Range(targets) :
                            /\ targetCount(flowEdges, t) > 1
                            /\ t \notin conditionalTargets(nodes, flowEdges)})
        errors ==
            [i \in DOMAIN multiple |-> MultipleParentsError(multiple[i])]
            \o (IF detectCycles(nodes, flowEdges)
                THEN <<CyclesError>> ELSE <<>>)
    IN IF nodes = <<>> THEN [isValid |-> TRUE, errors |-> <<>>]
       ELSE [isValid |-> errors = <<>>, errors |-> errors]

\* the ReactFlow edges of a list of workflow edges
FlowEdgesOf(workflowEdges) ==
    [i \in DOMAIN workflowEdges |->
        [source |-> workflowEdges[i].from, target |-> workflowEdges[i].to,
         sourceHandle |-> workflowEdges[i].output,
         targetHandle |-> workflowEdges[i].input]]

NoStartError == [kind |-> "no start node", node |-> Null]
MissingInputError(nodeId) == [kind |-> "missing input", node |-> nodeId]

\* WorkflowUtils.getReachableNodes
getReachableNodes(startNodes, workflowEdges) ==
    LET from == {n.id : n \in Range(startNodes)}
    IN from \cup ReachedBy({<<e.from, e.to>> : e \in Range(workflowEdges)},
                           from, Len(workflowEdges))

\* WorkflowUtils.validateWorkflow; every input handle of NODE_CONFIGS is
\* required, no output handle is
validateWorkflow(nodes, workflowEdges) ==
    LET startNodes ==
            SelectSeqBy(nodes, {n \in Range(nodes) : n.type = "StartNode"})
        connectedNodeIds ==
            {e.from : e \in Range(workflowEdges)}
            \cup {e.to : e \in Range(workflowEdges)}
        isolatedNodes ==
            SelectSeqBy(nodes,
                        {n \in Range(nodes) :
                            /\ n.type # "StartNode"
                            /\ n.id \notin connectedNodeIds})
        missing ==
            SelectSeqBy(nodes,
                        {n \in Range(nodes) :
                            \E h \in Range(n.handles) :
                                /\ h.type = "input"
                                /\ ~\E e \in Range(workflowEdges) :
                                       e.to = n.id /\ e.input = h.id})
        unreachableNodes ==
            SelectSeqBy(nodes,
                        {n \in Range(nodes) :
                            /\ n.type # "StartNode"
                            /\ n.id \notin getReachableNodes(startNodes,
                                                             workflowEdges)})
        danglingOutputs ==
            SelectSeqBy(nodes,
                        {n \in Range(nodes) :
                            \E h \in Range(n.handles) :
                                /\ h.type = "output"
                                /\ ~\E e \in Range(workflowEdges) :
                                       e.from = n.id /\ e.output = h.id})
        errors ==
            (IF startNodes = <<>> THEN <<NoStartError>> ELSE <<>>)
            \o [i \in DOMAIN missing |-> MissingInputError(missing[i].id)]
        warnings ==
            (IF isolatedNodes # <<>> THEN <<"isolated">> ELSE <<>>)
            \o (IF startNodes # <<>> /\ unreachableNodes # <<>>
                THEN <<"unreachable">> ELSE <<>>)
            \o (IF danglingOutputs # <<>>
                THEN <<"unconnected outputs">> ELSE <<>>)
    IN [isValid |-> errors = <<>>, errors |-> errors, warnings |-> warnings]


(***************************************************************************)
(* The canvas: connect gestures and context adds on a rendered Condition   *)
(* node                                                                    *)
(***************************************************************************)
\* an imported workflow that holds one Condition node
CanvasNodes == <<WorkflowNode("C", "ConditionNode")>>

InitCanvas ==
    /\ workflowConfig = NoConfig
    /\ runPc = "idle"
    /\ wfStatus = Undefined
    /\ wfEndTime = FALSE
    /\ jobResults = <<>>
    /\ executionLogs = <<>>
    /\ executedNodes = {}
    /\ frames = <<>>
    /\ isExecuting = FALSE
    /\ jobUpdates = <<>>
    /\ workflowUpdates = <<>>
    /\ handlerCalls = <<>>
    /\ thrown = Undefined
    /\ otherRun = NoRun
    /\ modalProps = NoGraph
    /\ modalState = ModalClosed
    /\ cycleArgs = NoCycleArgs
    /\ cycleResult = NoCycleResult
    /\ graphArgs = NoGraphArgs
    /\ graphResult = NoGraphResult
    /\ nodesState = CanvasNodes
    /\ edgesState = <<>>
    /\ nodesRef = CanvasNodes
    /\ edgesRef = <<>>
    /\ autoConnectTimers = <<>>
    /\ generatedIds = 0
    /\ stateUpdates = 0
    /\ scriptJob = NoScriptJob
    /\ apiJob = NoApiJob
    /\ mockRun = NoMockRun
    /\ monitor = NoMonitor

NextCanvas ==
    \/ \E nodeType \in NodeTypes : onDrop(nodeType)
    \/ \E type \in NodeTypes, afterNodeId \in NodeIds(nodesRef),
          direction \in Directions :
           addNodeWithContext(type, afterNodeId, direction)
    \/ AutoConnect
    \/ \E source \in NodeIds(nodesRef), target \in NodeIds(nodesRef) :
           \E sourceHandle \in RequestOutputIds,
              targetHandle \in RequestInputIds :
               onConnect(source, sourceHandle, target, targetHandle)
    \/ Render

SpecCanvas == InitCanvas /\ [][NextCanvas]_vars

\* a true or false port of a Condition node has two or more outgoing edges
OverloadedConditionPort(nodes, edgeList) ==
    \E n \in Range(nodes), port \in {"true", "false"} :
        /\ n.type = "ConditionNode"
        /\ Cardinality({i \in DOMAIN edgeList :
                           /\ edgeList[i].from = n.id
                           /\ edgeList[i].output = port}) >= 2

\* validation reports a graph with such a port invalid
OverloadedPortIsReported ==
    OverloadedConditionPort(nodesState, edgesState)
        => ~validateTree(nodesState, FlowEdgesOf(edgesState)).isValid

\* C23: after any sequence of canvas connect operations and
\* addNodeWithContext auto-connections each true port and each false port of
\* a Condition node has at most one outgoing edge, and a graph in which one
\* of these ports has two or more outgoing edges is reported invalid by
\* validation.
ConditionPortsHaveOneEdge ==
    /\ ~OverloadedConditionPort(nodesState, edgesState)
    /\ OverloadedPortIsReported


(***************************************************************************)
(* validateTree, validateWorkflow and exportJobsConfig on drawn graphs     *)
(***************************************************************************)
\* a drawn edge list holds at most MaxGraphEdges edges
MaxGraphEdges == 3

\* the node lists that are drawn: no node; a start, a condition, two tasks
\* and an end node; two start nodes; two tasks
GraphNodeLists ==
    {<<>>,
     <<WorkflowNode("S", "StartNode"), WorkflowNode("C", "ConditionNode"),
       WorkflowNode("A", "AddTaskNode"), WorkflowNode("B", "AddTaskNode"),
       WorkflowNode("T", "EndNode")>>,
     <<WorkflowNode("S", "StartNode"), WorkflowNode("S2", "StartNode")>>,
     <<WorkflowNode("A", "AddTaskNode"), WorkflowNode("B", "AddTaskNode")>>}

\* the edges that are drawn; the first one has no output port id
GraphEdges ==
    {createEdge("S", "", "C", "in"),
     createEdge("C", "true", "T", "in"),
     createEdge("C", "false", "A", "in"),
     createEdge("A", "out", "T", "in"),
     createEdge("B", "out", "T", "in"),
     createEdge("A", "out", "B", "in"),
     createEdge("B", "out", "A", "in")}

GraphEdgeLists == UNION {[1..n -> GraphEdges] : n \in 0..MaxGraphEdges}

InitGraph ==
    /\ workflowConfig = NoConfig
    /\ runPc = "idle"
    /\ wfStatus = Undefined
    /\ wfEndTime = FALSE
    /\ jobResults = <<>>
    /\ executionLogs = <<>>
    /\ executedNodes = {}
    /\ frames = <<>>
    /\ isExecuting = FALSE
    /\ jobUpdates = <<>>
    /\ workflowUpdates = <<>>
    /\ handlerCalls = <<>>
    /\ thrown = Undefined
    /\ otherRun = NoRun
    /\ modalProps = NoGraph
    /\ modalState = ModalClosed
    /\ cycleArgs = NoCycleArgs
    /\ cycleResult = NoCycleResult
    /\ graphArgs \in [nodes : GraphNodeLists, edges : GraphEdgeLists]
    /\ graphResult = NoGraphResult
    /\ nodesState = <<>>
    /\ edgesState = <<>>
    /\ nodesRef = <<>>
    /\ edgesRef = <<>>
    /\ autoConnectTimers = <<>>
    /\ generatedIds = 0
    /\ stateUpdates = 0
    /\ scriptJob = NoScriptJob
    /\ apiJob = NoApiJob
    /\ mockRun = NoMockRun
    /\ monitor = NoMonitor

\* what lies outside the three calls
besideGraph == <<workflowConfig, runPc, wfStatus, wfEndTime, jobResults,
                 executionLogs, executedNodes, frames, isExecuting,
                 jobUpdates, workflowUpdates, handlerCalls, thrown, otherRun,
                 modalVars, cycleArgs, cycleResult, editorVars, handlerVars, otherVars>>

CallValidateTree ==
    /\ ~graphResult.treeCalled
    /\ graphResult' =
           [graphResult EXCEPT
              !.treeCalled = TRUE,
              !.tree = validateTree(graphArgs.nodes,
                                    FlowEdgesOf(graphArgs.edges))]
    /\ UNCHANGED <<graphArgs, besideGraph>>

CallValidateWorkflow ==
    /\ ~graphResult.workflowCalled
    /\ graphResult' =
           [graphResult EXCEPT
              !.workflowCalled = TRUE,
              !.workflow = validateWorkflow(graphArgs.nodes, graphArgs.edges)]
    /\ UNCHANGED <<graphArgs, besideGraph>>

CallExportJobsConfig ==
    /\ ~graphResult.exportCalled
    /\ graphResult' =
           [graphResult EXCEPT
              !.exportCalled = TRUE,
              !.export = exportJobsConfig(graphArgs.nodes, graphArgs.edges)]
    /\ UNCHANGED <<graphArgs, besideGraph>>

NextGraph ==
    \/ CallValidateTree
    \/ CallValidateWorkflow
    \/ CallExportJobsConfig

SpecGraph == InitGraph /\ [][NextGraph]_vars

\* the edges of the drawn graph that enter a node
IncomingEdges(nodeId) ==
    {i \in DOMAIN graphArgs.edges : graphArgs.edges[i].to = nodeId}

\* the edge leaves a true or false port of a Condition node of the graph
FromBranchPort(e) ==
    /\ e.output \in {"true", "false"}
    /\ \E n \in Range(graphArgs.nodes) :
           n.id = e.from /\ n.type = "ConditionNode"

\* the node has more than one incoming edge and more than one of them does
\* not leave a Condition branch port
HasNonBranchMergeParents(nodeId) ==
    /\ Cardinality(IncomingEdges(nodeId)) > 1
    /\ Cardinality({i \in IncomingEdges(nodeId) :
                       ~FromBranchPort(graphArgs.edges[i])}) > 1

\* the node ids a drawn graph names
GraphNodeIds ==
    NodeIds(graphArgs.nodes) \cup {e.from : e \in Range(graphArgs.edges)}
    \cup {e.to : e \in Range(graphArgs.edges)}

\* C24: validateTree reports a multi-parent error for a node exactly when
\* the node has more than one incoming edge and it is not the case that all
\* but one of them leave true or false ports of Condition nodes; a cycle is
\* reported as a separate error, and a graph with both defects yields both
\* errors.
MultiParentAndCycleErrorsReported ==
    graphResult.treeCalled =>
        /\ \A nodeId \in GraphNodeIds :
               (MultipleParentsError(nodeId) \in Range(graphResult.tree.errors))
                   <=> HasNonBranchMergeParents(nodeId)
        /\ (CyclesError \in Range(graphResult.tree.errors))
               <=> HasDirectedCycleIn(graphArgs.edges)
        /\ MultipleParentsError("T") # CyclesError


\* the number of Start nodes of a node list
StartNodeCount(nodes) ==
    Cardinality({i \in DOMAIN nodes : nodes[i].type = "StartNode"})

\* C25: validation accepts a graph only if it has exactly one Start node: a
\* graph with no Start node and a graph with two or more Start nodes are
\* both reported invalid with an error.
OnlyOneStartNodeAccepted ==
    (/\ graphResult.workflowCalled
     /\ StartNodeCount(graphArgs.nodes) # 1)
        => /\ ~graphResult.workflow.isValid
           /\ graphResult.workflow.errors # <<>>


\* the number of entries of a list that equal r
Occurrences(list, r) == Cardinality({i \in DOMAIN list : list[i] = r})

\* the condition an edge is exported with
ExportedCondition(e) == IF e.output = "" THEN "default" ELSE e.output

\* the connection and the dependency an edge stands for
ConnectionOf(e) ==
    [targetJobId |-> e.to, condition |-> ExportedCondition(e)]
DependencyOf(e) ==
    [sourceJobId |-> e.from, condition |-> ExportedCondition(e)]

\* C26: exportJobsConfig emits one job per node; for every edge from u to v
\* job u has the connection to v with the port of the edge, or "default"
\* when the edge has none, and job v has the dependency on u with the same
\* condition; there are no other connections or dependencies, so v is among
\* the connections of u exactly when u is among the dependencies of v; and
\* isConditional is true exactly for Condition nodes.
ExportMirrorsEdges ==
    graphResult.exportCalled =>
        LET jobs == graphResult.export.jobs
            nodes == graphArgs.nodes
            edgeList == graphArgs.edges
        IN /\ Len(jobs) = Len(nodes)
           /\ \A i \in DOMAIN nodes :
                  /\ jobs[i].nodeId = nodes[i].id
                  /\ jobs[i].isConditional = (nodes[i].type = "ConditionNode")
                  /\ \A r \in Range(jobs[i].connections)
                              \cup {ConnectionOf(e) : e \in Range(edgeList)} :
                         Occurrences(jobs[i].connections, r) =
                             Cardinality({k \in DOMAIN edgeList :
                                 /\ edgeList[k].from = nodes[i].id
                                 /\ ConnectionOf(edgeList[k]) = r})
                  /\ \A r \in Range(jobs[i].dependencies)
                              \cup {DependencyOf(e) : e \in Range(edgeList)} :
                         Occurrences(jobs[i].dependencies, r) =
                             Cardinality({k \in DOMAIN edgeList :
                                 /\ edgeList[k].to = nodes[i].id
                                 /\ DependencyOf(edgeList[k]) = r})
           /\ \A i \in DOMAIN jobs, j \in DOMAIN jobs :
                  \A condition \in {"default", "out", "true", "false"} :
                      ([targetJobId |-> jobs[j].nodeId,
                        condition |-> condition]
                           \in Range(jobs[i].connections))
                      <=> ([sourceJobId |-> jobs[i].nodeId,
                            condition |-> condition]
                               \in Range(jobs[j].dependencies))

\* exportJobsConfig was called on a graph with an edge without a port id, a
\* Condition branch edge and a second edge into the same node
ExportedDefaultAndBranch ==
    /\ graphResult.exportCalled
    /\ graphArgs.edges = <<createEdge("S", "", "C", "in"),
                           createEdge("C", "true", "T", "in"),
                           createEdge("A", "out", "T", "in")>>
    /\ Len(graphArgs.nodes) = 5
    /\ graphResult.export.jobs[1].connections =
           <<[targetJobId |-> "C", condition |-> "default"]>>
    /\ graphResult.export.jobs[5].dependencies =
           <<[sourceJobId |-> "C", condition |-> "true"],
             [sourceJobId |-> "A", condition |-> "out"]>>
    /\ graphResult.export.jobs[2].isConditional


(***************************************************************************)
(* Runs of a workflow whose Condition job carries predicates               *)
(***************************************************************************)
\* a Condition job holds at most MaxConditions predicates
MaxConditions == 2

\* the value each operator is asked with
ConditionValue(operator) ==
    CASE operator \in {"equals", "not_equals"} -> <<"n", "u", "l", "l">>
      [] operator \in {"greater_than", "less_than"} -> <<" ", "5">>
      [] operator \in {"contains", "not_contains"} ->
             <<"O", "B", "J", "E", "C", "T">>
      [] OTHER -> <<>>

\* the predicates that are drawn: every known operator and the unknown
\* operator "matches", on the result of the Start job and on a field that
\* the context does not hold
ConditionPool ==
    {[field |-> field, operator |-> operator,
      value |-> ConditionValue(operator)] :
        field \in {"start_result", "missing"},
        operator \in KnownOperators}
    \cup {[field |-> "missing", operator |-> "matches", value |-> <<>>]}

ConditionLists == UNION {[1..n -> ConditionPool] : n \in 0..MaxConditions}

\* Start -> A, A{true -> T, false -> F}, with the attributes on A
ConditionConfig(conditions, logic) ==
    [BranchConfig EXCEPT
       !.jobs[2] =
           [type |-> @.type, nodeId |-> @.nodeId,
            connections |-> @.connections, dependencies |-> @.dependencies,
            isConditional |-> @.isConditional,
            attributes |-> [conditions |-> conditions, logic |-> logic]]]

ConditionConfigs ==
    {ConditionConfig(conditions, logic) :
        conditions \in ConditionLists, logic \in {"AND", "OR", Undefined}}

NextCondition ==
    \/ \E cfg \in ConditionConfigs : ExecuteWorkflow(cfg)
    \/ \E f \in DOMAIN frames :
           \E outcome \in {"ok", "fail", "true", "false"} :
               HandlerReturn(f, outcome)
    \/ \E f \in DOMAIN frames : ExecuteJobSettle(f)
    \/ \E f \in DOMAIN frames : AfterExecuteJob(f)
    \/ \E f \in DOMAIN frames : LaunchNextJobs(f)
    \/ \E f \in DOMAIN frames : AllSettled(f)
    \/ FinishWorkflow

SpecCondition == Init /\ [][NextCondition]_vars


\* the Condition jobs of the run that carry predicates
PredicateJobs ==
    {id \in DOMAIN jobResults :
        "attributes" \in DOMAIN FindJob(workflowConfig, id)}

\* the outcome of one predicate with a known operator in the current context
PredicateOutcome(c) ==
    EvaluateOperator(c.operator, ContextValue(jobResults, c.field), c.value)

\* C27: for every non-empty ordered list of predicates with known operators
\* the Condition handler sets result.conditionResult to the conjunction of
\* the predicate outcomes when logic is AND and to their disjunction when
\* logic is OR.
ConditionResultCombinesPredicates ==
    \A id \in PredicateJobs :
        LET attributes == FindJob(workflowConfig, id).attributes
            conditions == attributes.conditions
            recorded == jobResults[id].result.conditionResult
        IN (/\ jobResults[id].status \in {"completed", "failed"}
            /\ conditions # <<>>
            /\ \A i \in DOMAIN conditions :
                   conditions[i].operator \in KnownOperators)
               => /\ jobResults[id].status = "completed"
                  /\ jobResults[id].result.defined
                  /\ attributes.logic = "AND" =>
                         (recorded = "true") =
                             (\A i \in DOMAIN conditions :
                                  PredicateOutcome(conditions[i]))
                  /\ attributes.logic = "AND" => recorded \in {"true", "false"}
                  /\ attributes.logic = "OR" =>
                         (recorded = "true") =
                             (\E i \in DOMAIN conditions :
                                  PredicateOutcome(conditions[i]))
                  /\ attributes.logic = "OR" => recorded \in {"true", "false"}

\* an AND of a true and a false predicate was recorded as false
AndOfTrueAndFalseRecorded ==
    /\ "A" \in PredicateJobs
    /\ jobResults["A"].status = "completed"
    /\ FindJob(workflowConfig, "A").attributes =
           [conditions |->
                <<[field |-> "missing", operator |-> "equals",
                   value |-> <<"n", "u", "l", "l">>],
                  [field |-> "start_result", operator |-> "equals",
                   value |-> <<"n", "u", "l", "l">>]>>,
            logic |-> "AND"]
    /\ jobResults["A"].result.conditionResult = "false"


\* the predicates of the job name an operator outside the eight known ones
HasUnknownOperator(id) ==
    \E c \in Range(FindJob(workflowConfig, id).attributes.conditions) :
        c.operator \notin KnownOperators

\* C28: a Condition job that contains a predicate with an operator outside
\* the eight known operators fails locally: the job ends with status failed
\* and an error, no conditionResult is recorded, and the run still returns
\* with status completed.
UnknownOperatorFailsJobOnly ==
    \A id \in PredicateJobs :
        HasUnknownOperator(id)
            => /\ jobResults[id].status \in {"completed", "failed"}
                   => /\ jobResults[id].status = "failed"
                      /\ jobResults[id].error # Undefined
               /\ ~jobResults[id].result.defined
               /\ jobResults[id].result.conditionResult = Undefined
               /\ runPc # "rejected"
               /\ thrown = Undefined
               /\ runPc = "returned"
                      => /\ wfStatus = "completed"
                         /\ jobResults[id].status = "failed"

\* a run has returned whose Condition job holds a true predicate, then one
\* with the unknown operator, under OR
RunReturnedAfterUnknownOperator ==
    /\ runPc = "returned"
    /\ wfStatus = "completed"
    /\ "A" \in PredicateJobs
    /\ FindJob(workflowConfig, "A").attributes =
           [conditions |->
                <<[field |-> "missing", operator |-> "is_empty",
                   value |-> <<>>],
                  [field |-> "missing", operator |-> "matches",
                   value |-> <<>>]>>,
            logic |-> "OR"]
    /\ jobResults["A"].status = "failed"
    /\ jobResults["Start"].status = "completed"


(***************************************************************************)
(* The Script handler: executeScriptJob and its executeWithTimeout, with   *)
(* the clock and the one thread of the event loop                          *)
(***************************************************************************)
besideHandlers == <<workflowConfig, runPc, wfStatus, wfEndTime, jobResults,
                    executionLogs, executedNodes, frames, isExecuting,
                    jobUpdates, workflowUpdates, handlerCalls, thrown,
                    otherRun, modalVars, validatorVars, editorVars, otherVars>>

\* the clock stops here
MaxClock == 2000

\* the milliseconds that pass between two looks at the clock
ClockSteps == {250, 500}

\* options.scriptTimeout of the constructor
ScriptTimeouts == {500, 1000}

\* the user scripts: one that returns a value, one that throws, one whose
\* loop never ends, one that returns a promise that never settles
ScriptBodies == {"returns", "throws", "loops", "pendingPromise"}

\* new Function("context", safeScript).call(null, context): safeScript is
\* the expression statement of the wrapper call, with no return before it
funcCall(body) ==
    IF body = "loops" THEN [kind |-> "diverge", value |-> Undefined]
    ELSE IF body = "throws"
    THEN [kind |-> "throw", value |-> <<"script", "error">>]
    ELSE [kind |-> "return", value |-> Undefined]

\* `Script execution timed out after ${timeout}ms`
ScriptTimeoutMessage(timeout) ==
    <<"Script", "execution", "timed", "out", "after", ToString(timeout),
      "ms">>

\* the promise of executeWithTimeout when its executor has run: the timer is
\* set, the function is called, the timer is cleared when the call returns
\* or throws
executeWithTimeout(body, timeout, now) ==
    LET timeoutId == TimerAt(now + timeout)
        called == funcCall(body)
    IN  IF called.kind = "diverge"
        THEN [pc |-> "calling", timer |-> timeoutId, promise |-> "pending",
              value |-> Undefined]
        ELSE IF called.kind = "throw"
        THEN [pc |-> "awaiting", timer |-> NoTimer,
              promise |-> "rejected", value |-> called.value]
        ELSE IF called.value = "Promise"
        THEN [pc |-> "awaiting", timer |-> NoTimer,
              promise |-> "pending", value |-> Undefined]
        ELSE [pc |-> "awaiting", timer |-> NoTimer,
              promise |-> "fulfilled", value |-> called.value]

\* executeJob sets the status to running and calls executeScriptJob, which
\* runs up to its await of executeWithTimeout
executeScriptJob(body, timeout) ==
    /\ scriptJob.pc = "idle"
    /\ LET run == executeWithTimeout(body, timeout, scriptJob.now)
       IN  scriptJob' =
               [scriptJob EXCEPT
                    !.pc = run.pc, !.body = body, !.timeout = timeout,
                    !.startTime = scriptJob.now, !.timer = run.timer,
                    !.status = "running",
                    !.result = [promise |-> run.promise,
                                value |-> run.value]]
    /\ UNCHANGED <<besideHandlers, apiJob>>

\* time passes; the event loop runs the callback of a timer that is due only
\* when no synchronous code occupies the thread
ScriptTimePasses(step) ==
    /\ scriptJob.now + step <= MaxClock
    /\ LET now == scriptJob.now + step
           due == /\ scriptJob.pc = "awaiting"
                  /\ scriptJob.timer.armed
                  /\ scriptJob.timer.due <= now
                  /\ scriptJob.result.promise = "pending"
       IN  scriptJob' =
               IF due
               THEN [scriptJob EXCEPT
                         !.now = now, !.timer = NoTimer,
                         !.result =
                             [promise |-> "rejected",
                              value |->
                                  ScriptTimeoutMessage(scriptJob.timeout)]]
               ELSE [scriptJob EXCEPT !.now = now]
    /\ UNCHANGED <<besideHandlers, apiJob>>

\* the await of executeWithTimeout resumes: a value is stored as the result
\* and executeJob completes the job; an error is wrapped by the catch of the
\* handler and recorded by the catch of executeJob
ScriptAwaitResumes ==
    /\ scriptJob.pc = "awaiting"
    /\ scriptJob.result.promise # "pending"
    /\ scriptJob' =
           IF scriptJob.result.promise = "fulfilled"
           THEN [scriptJob EXCEPT
                     !.pc = "done", !.status = "completed",
                     !.endTime = scriptJob.now,
                     !.result = [success |-> TRUE,
                                 scriptResult |-> scriptJob.result.value]]
           ELSE [scriptJob EXCEPT
                     !.pc = "done", !.status = "failed",
                     !.endTime = scriptJob.now,
                     !.error = <<"Script", "execution", "failed:">>
                                   \o scriptJob.result.value,
                     !.result = Undefined]
    /\ UNCHANGED <<besideHandlers, apiJob>>

NextScript ==
    \/ \E body \in ScriptBodies, timeout \in ScriptTimeouts :
           executeScriptJob(body, timeout)
    \/ \E step \in ClockSteps : ScriptTimePasses(step)
    \/ ScriptAwaitResumes

SpecScript == Init /\ [][NextScript]_vars

\* the script of the job never finishes
NeverFinishes(body) == body \in {"loops", "pendingPromise"}

\* the recorded error carries the timeout message
TimeoutTagged(error) ==
    /\ error # Undefined
    /\ includes(error, <<"timed", "out">>)

\* C29: a Script job whose body never terminates, be it a synchronous loop
\* or a promise that stays pending, ends with status failed and a
\* timeout-tagged error within a bounded margin of its timeout (1500ms for a
\* timeout of 1000ms): it never ends otherwise, and once the margin has
\* passed it has ended.
ScriptTimeoutAlwaysWins ==
    (scriptJob.pc # "idle" /\ NeverFinishes(scriptJob.body))
        => /\ scriptJob.status \in {"completed", "failed"}
               => /\ scriptJob.status = "failed"
                  /\ TimeoutTagged(scriptJob.error)
           /\ scriptJob.now - scriptJob.startTime
                  >= scriptJob.timeout + scriptJob.timeout \div 2
               => /\ scriptJob.status = "failed"
                  /\ TimeoutTagged(scriptJob.error)
                  /\ scriptJob.endTime - scriptJob.startTime
                         < scriptJob.timeout + scriptJob.timeout \div 2


(***************************************************************************)
(* The APICall handler: executeAPICallJob, its abort timer and its fetch   *)
(***************************************************************************)
\* job.attributes.timeout, or options.apiTimeout of the constructor
ApiTimeouts == {500, 1000}

\* job.attributes.url
ApiUrl == "https://api.example/items"

\* response.status and response.statusText of the servers
ResponseStatuses == {200, 404, 502}
StatusTexts ==
    {<<>>, <<"OK">>, <<"Not", "Found">>, <<"Failed", "to", "fetch">>}

\* the messages of the TypeError fetch rejects with when the network is
\* unreachable, as the browsers word it
NetworkErrorMessages ==
    {<<"Failed", "to", "fetch">>,
     <<"NetworkError", "when", "attempting", "to", "fetch", "resource.">>,
     <<"Load", "failed">>}

\* how a fetch ends: with a response, with the TypeError of a network
\* failure, or with the AbortError of controller.abort()
FetchOutcomes ==
    [kind : {"response"}, status : ResponseStatuses,
     statusText : StatusTexts, message : {<<>>}]
        \cup [kind : {"TypeError"}, status : {0}, statusText : {<<>>},
              message : NetworkErrorMessages]
        \cup [kind : {"AbortError"}, status : {0}, statusText : {<<>>},
              message : {<<"signal", "is", "aborted", "without", "reason">>}]

\* response.ok
ResponseOk(status) == status >= 200 /\ status <= 299

\* `API call timed out after ${requestTimeout}ms`
ApiTimeoutMessage(requestTimeout) ==
    <<"API", "call", "timed", "out", "after", ToString(requestTimeout), "ms">>

\* `Network error: Possible CORS issue or server unreachable. URL: ${url}`
CorsMessage(url) ==
    <<"Network", "error:", "Possible", "CORS", "issue", "or", "server",
      "unreachable.", "URL:", url>>

\* `API call failed with status ${response.status}: ${response.statusText}`
StatusMessage(status, statusText) ==
    <<"API", "call", "failed", "with", "status", ToString(status), ":">>
        \o statusText

\* the error that reaches the catch of the handler: the one fetch rejected
\* with, or the one thrown inside the try for a response that is not ok
CaughtError(fetched) ==
    IF fetched.kind = "response"
    THEN [name |-> "Error",
          message |-> StatusMessage(fetched.status, fetched.statusText)]
    ELSE [name |-> fetched.kind, message |-> fetched.message]

\* the catch of executeAPICallJob: the message of the error it throws
catchApiError(error, requestTimeout, url) ==
    IF error.name = "AbortError"
    THEN ApiTimeoutMessage(requestTimeout)
    ELSE IF includes(error.message, <<"Failed", "to", "fetch">>)
    THEN CorsMessage(url)
    ELSE <<"API", "call", "failed:">> \o error.message

\* the fetch of the call ends in failure
FetchFails(fetched) ==
    fetched.kind = "response" => ~ResponseOk(fetched.status)

\* jobResult.error for a fetch that ends in failure
ApiErrorOf(fetched, requestTimeout) ==
    catchApiError(CaughtError(fetched), requestTimeout, ApiUrl)

\* executeJob sets the status to running and calls executeAPICallJob, which
\* sets the abort timer and awaits fetch
executeAPICallJob(requestTimeout) ==
    /\ apiJob.pc = "idle"
    /\ apiJob' = [apiJob EXCEPT
                      !.pc = "fetching", !.requestTimeout = requestTimeout,
                      !.timer = TimerAt(apiJob.now + requestTimeout),
                      !.status = "running"]
    /\ UNCHANGED <<besideHandlers, scriptJob>>

\* the fetch has ended and the handler runs to its end: the timer is
\* cleared, a response that is ok becomes the result, anything else goes
\* through the catch and executeJob records the message
ApiSettle(fetched) ==
    IF FetchFails(fetched)
    THEN [apiJob EXCEPT
              !.pc = "done", !.timer = NoTimer, !.fetched = fetched,
              !.status = "failed",
              !.error = ApiErrorOf(fetched, apiJob.requestTimeout)]
    ELSE [apiJob EXCEPT
              !.pc = "done", !.timer = NoTimer, !.fetched = fetched,
              !.status = "completed",
              !.result = [success |-> TRUE, statusCode |-> fetched.status,
                          statusText |-> fetched.statusText]]

\* the server answers before the timer is due
FetchResolves(status, statusText) ==
    /\ apiJob.pc = "fetching"
    /\ apiJob' = ApiSettle([kind |-> "response", status |-> status,
                            statusText |-> statusText, message |-> <<>>])
    /\ UNCHANGED <<besideHandlers, scriptJob>>

\* the network is unreachable: fetch rejects with a TypeError
FetchRejects(message) ==
    /\ apiJob.pc = "fetching"
    /\ apiJob' = ApiSettle([kind |-> "TypeError", status |-> 0,
                            statusText |-> <<>>, message |-> message])
    /\ UNCHANGED <<besideHandlers, scriptJob>>

\* time passes; when the abort timer is due while the fetch is pending its
\* callback aborts the fetch, which rejects with an AbortError
ApiTimePasses(step) ==
    /\ apiJob.now + step <= MaxClock
    /\ LET now == apiJob.now + step
           due == /\ apiJob.pc = "fetching"
                  /\ apiJob.timer.armed
                  /\ apiJob.timer.due <= now
           aborted ==
               ApiSettle([kind |-> "AbortError", status |-> 0,
                          statusText |-> <<>>,
                          message |-> <<"signal", "is", "aborted",
                                        "without", "reason">>])
       IN  apiJob' = IF due
                     THEN [aborted EXCEPT !.now = now]
                     ELSE [apiJob EXCEPT !.now = now]
    /\ UNCHANGED <<besideHandlers, scriptJob>>

NextApi ==
    \/ \E requestTimeout \in ApiTimeouts : executeAPICallJob(requestTimeout)
    \/ \E status \in ResponseStatuses, statusText \in StatusTexts :
           FetchResolves(status, statusText)
    \/ \E message \in NetworkErrorMessages : FetchRejects(message)
    \/ \E step \in ClockSteps : ApiTimePasses(step)

SpecApi == Init /\ [][NextApi]_vars

\* the cause of a failed fetch
FailureCause(fetched) ==
    IF fetched.kind = "response" THEN "non-2xx"
    ELSE IF fetched.kind = "AbortError" THEN "timeout"
    ELSE "network"

\* the timeout message is recorded for a timeout and for nothing else
TimeoutMessageOnlyForTimeout ==
    apiJob.status = "failed"
        => (includes(apiJob.error, <<"timed", "out">>)
                <=> FailureCause(apiJob.fetched) = "timeout")

\* the recorded message differs from the message of every failure of
\* another cause
MessagesOfCausesDiffer ==
    apiJob.status = "failed"
        => \A other \in FetchOutcomes :
               (/\ FetchFails(other)
                /\ FailureCause(other) # FailureCause(apiJob.fetched))
                   => ApiErrorOf(other, apiJob.requestTimeout) # apiJob.error

\* C30: the message recorded on jobResult.error for a failed APICall differs
\* from the message of every failure of another cause (non-2xx response,
\* timeout, network unreachable), and the timeout message is recorded for
\* a timeout only.
ApiFailureMessagesDistinguishable ==
    /\ MessagesOfCausesDiffer
    /\ TimeoutMessageOnlyForTimeout


(***************************************************************************)
(* WorkflowUtils.getTopologicalOrder on drawn graphs                       *)
(***************************************************************************)
\* an edge list handed to getTopologicalOrder holds at most MaxOrderEdges
\* edges
MaxOrderEdges == 4

OrderEdgeLists == UNION {[1..n -> GraphEdges] : n \in 0..MaxOrderEdges}

\* the keys of a Map in insertion order after one more set(key, ...)
MapKeysAfterSet(keys, key) ==
    IF key \in Range(keys) THEN keys ELSE Append(keys, key)

\* edges.forEach: inDegree.set(edge.to, (inDegree.get(edge.to) || 0) + 1);
\* the map as its keys in insertion order and its values
RECURSIVE countInDegrees(_, _)
countInDegrees(inDegree, edgeList) ==
    IF edgeList = <<>> THEN inDegree
    ELSE LET to == Head(edgeList).to
             old == IF to \in Range(inDegree.keys)
                    THEN inDegree.value[to] ELSE 0
         IN  countInDegrees(
                 [keys |-> MapKeysAfterSet(inDegree.keys, to),
                  value |-> [k \in DOMAIN inDegree.value \cup {to} |->
                                IF k = to THEN old + 1
                                ELSE inDegree.value[k]]],
                 Tail(edgeList))

\* graph.get(current) || []: the targets pushed for the edges that leave
\* current, in the order of the edge list
RECURSIVE orderNeighbors(_, _, _)
orderNeighbors(nodeIds, edgeList, current) ==
    IF current \notin nodeIds \/ edgeList = <<>> THEN <<>>
    ELSE IF Head(edgeList).from = current
    THEN <<Head(edgeList).to>>
             \o orderNeighbors(nodeIds, Tail(edgeList), current)
    ELSE orderNeighbors(nodeIds, Tail(edgeList), current)

\* a neighbor is queued when its in-degree drops to one
becomesReadyAtOne(newDegree) == newDegree = 1

\* if (newDegree === 0) queue.push(neighbor)
becomesReady(newDegree) == newDegree = 0

\* neighbors.forEach: the in-degree of each neighbor is lowered and the
\* neighbor is queued when it becomes ready
RECURSIVE removeEdges(_, _, _)
removeEdges(neighbors, degrees, queue) ==
    IF neighbors = <<>> THEN [degrees |-> degrees, queue |-> queue]
    ELSE LET neighbor == Head(neighbors)
             newDegree == degrees[neighbor] - 1
         IN  removeEdges(Tail(neighbors),
                         [degrees EXCEPT ![neighbor] = newDegree],
                         IF becomesReady(newDegree)
                         THEN Append(queue, neighbor) ELSE queue)

\* while (queue.length > 0): shift, push to the result, remove the edges
RECURSIVE kahnLoop(_, _, _, _, _)
kahnLoop(nodeIds, edgeList, degrees, queue, result) ==
    IF queue = <<>> THEN result
    ELSE LET current == Head(queue)
             after == removeEdges(orderNeighbors(nodeIds, edgeList, current),
                                  degrees, Tail(queue))
         IN  kahnLoop(nodeIds, edgeList, after.degrees, after.queue,
                      Append(result, current))

\* WorkflowUtils.getTopologicalOrder: graph.get(edge.from)!.push throws for
\* an edge that leaves a node outside the node list
getTopologicalOrder(nodes, workflowEdges) ==
    IF \E e \in Range(workflowEdges) : e.from \notin NodeIds(nodes)
    THEN [threw |-> TRUE, order |-> <<>>]
    ELSE LET first == [keys |-> [i \in DOMAIN nodes |-> nodes[i].id],
                       value |-> [k \in NodeIds(nodes) |-> 0]]
             inDegree == countInDegrees(first, workflowEdges)
             queue == SelectSeqBy(inDegree.keys,
                                  {k \in Range(inDegree.keys) :
                                       inDegree.value[k] = 0})
         IN  [threw |-> FALSE,
              order |-> kahnLoop(NodeIds(nodes), workflowEdges,
                                 inDegree.value, queue, <<>>)]

InitOrder ==
    /\ workflowConfig = NoConfig
    /\ runPc = "idle"
    /\ wfStatus = Undefined
    /\ wfEndTime = FALSE
    /\ jobResults = <<>>
    /\ executionLogs = <<>>
    /\ executedNodes = {}
    /\ frames = <<>>
    /\ isExecuting = FALSE
    /\ jobUpdates = <<>>
    /\ workflowUpdates = <<>>
    /\ handlerCalls = <<>>
    /\ thrown = Undefined
    /\ otherRun = NoRun
    /\ modalProps = NoGraph
    /\ modalState = ModalClosed
    /\ cycleArgs = NoCycleArgs
    /\ cycleResult = NoCycleResult
    /\ graphArgs \in [nodes : GraphNodeLists, edges : OrderEdgeLists]
    /\ graphResult = NoGraphResult
    /\ nodesState = <<>>
    /\ edgesState = <<>>
    /\ nodesRef = <<>>
    /\ edgesRef = <<>>
    /\ autoConnectTimers = <<>>
    /\ generatedIds = 0
    /\ stateUpdates = 0
    /\ scriptJob = NoScriptJob
    /\ apiJob = NoApiJob
    /\ mockRun = NoMockRun
    /\ monitor = NoMonitor

CallGetTopologicalOrder ==
    /\ ~graphResult.orderCalled
    /\ graphResult' =
           [graphResult EXCEPT
              !.orderCalled = TRUE,
              !.order = getTopologicalOrder(graphArgs.nodes, graphArgs.edges)]
    /\ UNCHANGED <<graphArgs, besideGraph>>

NextOrder == CallGetTopologicalOrder

SpecOrder == InitOrder /\ [][NextOrder]_vars


\* every edge of the drawn graph joins two nodes of the node list
DrawnGraphIsClosed ==
    \A e \in Range(graphArgs.edges) :
        e.from \in NodeIds(graphArgs.nodes) /\ e.to \in NodeIds(graphArgs.nodes)

\* the nodes reached from a node by one or more edges of the drawn graph
DescendantsOf(nodeId) ==
    ReachedBy(EdgePairs(graphArgs.edges), {nodeId}, Len(graphArgs.edges))

\* the node lies on a directed cycle of the drawn graph
LiesOnCycle(nodeId) == nodeId \in DescendantsOf(nodeId)

\* the node lies on a directed cycle or is reached from a node that does
BehindCycle(nodeId) ==
    \E m \in NodeIds(graphArgs.nodes) :
        LiesOnCycle(m) /\ (nodeId = m \/ nodeId \in DescendantsOf(m))

\* the node is reached from a node without incoming edges along nodes that
\* lie on no cycle
ReachedAroundCycles(nodeId) ==
    LET clean == {p \in EdgePairs(graphArgs.edges) :
                      ~LiesOnCycle(p[1]) /\ ~LiesOnCycle(p[2])}
        roots == {r \in NodeIds(graphArgs.nodes) :
                      \A e \in Range(graphArgs.edges) : e.to # r}
    IN  \E r \in roots :
            nodeId = r \/ nodeId \in ReachedBy(clean, {r}, Len(graphArgs.edges))

\* the returned list holds no node twice and puts the source of every edge
\* between returned nodes before its target
OrderIsConsistent ==
    LET order == graphResult.order.order
    IN  /\ \A i \in DOMAIN order, j \in DOMAIN order :
               order[i] = order[j] => i = j
        /\ \A e \in Range(graphArgs.edges) :
               \A i \in DOMAIN order, j \in DOMAIN order :
                   (order[i] = e.from /\ order[j] = e.to) => i < j

\* C31 as stated: for a graph without a cycle getTopologicalOrder returns
\* every node once with sources before targets; for a graph with a cycle the
\* returned list omits exactly the nodes that lie on a cycle or are reachable
\* only through one, and is still ordered consistently with the edges.
OrderOmitsOnlyCycleBoundNodes ==
    (graphResult.orderCalled /\ DrawnGraphIsClosed)
        => /\ ~graphResult.order.threw
           /\ OrderIsConsistent
           /\ Range(graphResult.order.order) =
                  {n \in NodeIds(graphArgs.nodes) :
                       ~LiesOnCycle(n)
                       /\ (BehindCycle(n) => ReachedAroundCycles(n))}

\* C31, amended: for a graph without a cycle getTopologicalOrder returns
\* every node once with sources before targets; for a graph with a cycle the
\* returned list omits exactly the nodes that lie on a cycle or are reachable
\* from one, whatever other parents they have, and is still ordered
\* consistently with the edges.
OrderOmitsCycleDescendants ==
    (graphResult.orderCalled /\ DrawnGraphIsClosed)
        => /\ ~graphResult.order.threw
           /\ OrderIsConsistent
           /\ Range(graphResult.order.order) =
                  {n \in NodeIds(graphArgs.nodes) : ~BehindCycle(n)}
           /\ ~HasDirectedCycleIn(graphArgs.edges)
                  => Len(graphResult.order.order) = Len(graphArgs.nodes)

\* the order has been computed for the cycle A <-> B next to the end node T
\* that is entered from A and from the cycle-free node C: S and C are
\* returned, T is not
OrderedWithCycleAboveSharedNode ==
    /\ graphResult.orderCalled
    /\ Len(graphArgs.nodes) = 5
    /\ graphArgs.edges =
           <<createEdge("A", "out", "B", "in"),
             createEdge("B", "out", "A", "in"),
             createEdge("A", "out", "T", "in"),
             createEdge("C", "true", "T", "in")>>
    /\ graphResult.order = [threw |-> FALSE, order |-> <<"S", "C">>]


(***************************************************************************)
(* MockWorkflowExecutor: executeWorkflow, executeFromNode, executeJob      *)
(***************************************************************************)
besideOthers == <<workflowConfig, runPc, wfStatus, wfEndTime, jobResults,
                  executionLogs, executedNodes, frames, isExecuting,
                  jobUpdates, workflowUpdates, handlerCalls, thrown,
                  otherRun, modalVars, validatorVars, editorVars,
                  handlerVars>>

\* the graph of the mock runs: Start S dispatches the API call A and the
\* script B side by side, and A dispatches the script D
MockNodes == <<Node("S", "StartNode"), Node("A", "APICallNode"),
               Node("B", "ScriptNode"), Node("D", "ScriptNode")>>
MockEdges == <<Edge("S", "out", "A"), Edge("S", "out", "B"),
               Edge("A", "out", "D")>>

\* the job document of the graph with attributes.continueOnError set for
\* the jobs of flagged
MockConfig(nodes, flagged) ==
    LET exported == exportJobsConfig(nodes, MockEdges)
    IN  [jobs |-> [i \in DOMAIN exported.jobs |->
                      [type |-> exported.jobs[i].type,
                       nodeId |-> exported.jobs[i].nodeId,
                       connections |-> exported.jobs[i].connections,
                       dependencies |-> exported.jobs[i].dependencies,
                       isConditional |-> exported.jobs[i].isConditional,
                       continueOnError |->
                           exported.jobs[i].nodeId \in flagged]],
         executionFlow |-> exported.executionFlow]

\* every choice of flags, and the graph without its Start node
MockConfigs ==
    {MockConfig(MockNodes, flagged) : flagged \in SUBSET {"A", "B", "D"}}
        \cup {MockConfig(Tail(MockNodes), {})}

\* the handlers of the mock: the Start and End handlers cannot fail, the
\* APICall and Script handlers fail at random
MockHandlerOutcomes(type) ==
    IF type \in {"APICall", "Script"} THEN {"ok", "fail"} ELSE {"ok"}

\* the next-job rule of the engine, which the mock calls as getNextJobs
mockGetNextJobs(job, jobResult) == getNextJobs(job, jobResult)

\* a failed job never lets the error go on
absorbsNoError(job) == FALSE

\* the catch of executeFromNode goes on when job.attributes.continueOnError
\* is set
absorbsError(job) == job.continueOnError

\* the catch of executeFromNode for the invocation f: the job is marked
\* failed and the error is thrown on unless the job continues on error
MockCatch(run, f) ==
    LET job == FindJob(run.config, run.frames[f].nodeId)
    IN  [run EXCEPT
             !.jobResults[job.nodeId].status = "failed",
             !.jobResults[job.nodeId].error = "error",
             !.frames[f].pc =
                 IF absorbsError(job) THEN "resolved" ELSE "rejected"]

\* executeFromNode up to its first await, called by the invocation parent
MockVisit(run, nodeId, parent) ==
    LET frame(pc) == [nodeId |-> nodeId, parent |-> parent, pc |-> pc,
                      outcome |-> Undefined]
    IN  IF nodeId \in run.executedNodes
        THEN [run EXCEPT !.frames = Append(@, frame("resolved"))]
        ELSE IF ~HasJob(run.config, nodeId)
        THEN [run EXCEPT !.frames = Append(@, frame("rejected"))]
        ELSE IF \E dep \in Range(FindJob(run.config, nodeId).dependencies) :
                    dep.sourceJobId \notin run.executedNodes
        THEN [run EXCEPT !.frames = Append(@, frame("resolved"))]
        ELSE [run EXCEPT !.frames = Append(@, frame("handler")),
                         !.jobResults[nodeId].status = "running"]

\* nextJobs.map((nextJobId) => this.executeFromNode(nextJobId, ...))
RECURSIVE MockLaunchAll(_, _, _)
MockLaunchAll(run, nextJobs, parent) ==
    IF nextJobs = <<>> THEN run
    ELSE MockLaunchAll(MockVisit(run, Head(nextJobs), parent),
                       Tail(nextJobs), parent)

\* executeWorkflow up to its await of executeFromNode
MockExecuteWorkflow(cfg) ==
    /\ mockRun.pc = "idle"
    /\ LET started ==
               [mockRun EXCEPT
                    !.config = cfg, !.pc = "running", !.status = "running",
                    !.isExecuting = TRUE,
                    !.jobResults =
                        [id \in JobIds(cfg) |->
                            [status |-> "pending", result |-> NoResult,
                             error |-> Undefined]]]
       IN  mockRun' =
               IF cfg.executionFlow.startNode = Null
               THEN [started EXCEPT
                         !.pc = "rejected", !.status = "failed",
                         !.isExecuting = FALSE,
                         !.workflowUpdates = Append(@, "failed")]
               ELSE MockVisit(started, cfg.executionFlow.startNode, 0)
    /\ UNCHANGED <<besideOthers, monitor>>

\* the handler of the invocation f settles: executeJob records the status;
\* on success the node joins the executed set and the next jobs are visited,
\* on failure the catch of executeFromNode runs
MockHandlerReturn(f, outcome) ==
    /\ mockRun.frames[f].pc = "handler"
    /\ LET nodeId == mockRun.frames[f].nodeId
           job == FindJob(mockRun.config, nodeId)
           done == [mockRun EXCEPT
                        !.frames[f].outcome = outcome,
                        !.jobResults[nodeId].status =
                            IF outcome = "ok" THEN "completed" ELSE "failed",
                        !.jobResults[nodeId].result =
                            IF outcome = "ok" THEN HandlerResult(outcome)
                            ELSE NoResult]
           added == [done EXCEPT
                         !.executedNodes = @ \cup {nodeId},
                         !.frames[f].pc = "Promise.all"]
       IN  /\ outcome \in MockHandlerOutcomes(job.type)
           /\ mockRun' =
                  IF outcome = "ok"
                  THEN MockLaunchAll(
                           added,
                           mockGetNextJobs(job, done.jobResults[nodeId]), f)
                  ELSE MockCatch(done, f)
    /\ UNCHANGED <<besideOthers, monitor>>

\* the invocations the invocation f has made
MockChildren(run, f) == {c \in DOMAIN run.frames : run.frames[c].parent = f}

\* await Promise.all(nextJobPromises) settles: it rejects as soon as one of
\* the promises has rejected and resolves when all of them have resolved
MockJoin(f) ==
    /\ mockRun.frames[f].pc = "Promise.all"
    /\ LET children == MockChildren(mockRun, f)
       IN  \/ /\ \E c \in children : mockRun.frames[c].pc = "rejected"
              /\ mockRun' = MockCatch(mockRun, f)
           \/ /\ \A c \in children : mockRun.frames[c].pc = "resolved"
              /\ mockRun' = [mockRun EXCEPT !.frames[f].pc = "resolved"]
    /\ UNCHANGED <<besideOthers, monitor>>

\* the await of executeFromNode in executeWorkflow settles: the status is
\* set, isExecuting is cleared and onWorkflowUpdate is called
MockFinish ==
    /\ mockRun.pc = "running"
    /\ mockRun.frames[1].pc \in {"resolved", "rejected"}
    /\ LET status == IF mockRun.frames[1].pc = "resolved"
                     THEN "completed" ELSE "failed"
       IN  mockRun' =
               [mockRun EXCEPT
                    !.pc = IF status = "completed"
                           THEN "returned" ELSE "rejected",
                    !.status = status, !.isExecuting = FALSE,
                    !.workflowUpdates = Append(@, status)]
    /\ UNCHANGED <<besideOthers, monitor>>

NextMock ==
    \/ \E cfg \in MockConfigs : MockExecuteWorkflow(cfg)
    \/ \E f \in DOMAIN mockRun.frames, outcome \in {"ok", "fail"} :
           MockHandlerReturn(f, outcome)
    \/ \E f \in DOMAIN mockRun.frames : MockJoin(f)
    \/ MockFinish

SpecMock == Init /\ [][NextMock]_vars


\* the invocations whose handler has failed
MockFailedHandlers ==
    {f \in DOMAIN mockRun.frames : mockRun.frames[f].outcome = "fail"}

\* the job of an invocation
MockJobOf(f) == FindJob(mockRun.config, mockRun.frames[f].nodeId)

\* the invocations on the chain of calls that led to the invocation f
RECURSIVE MockAncestors(_)
MockAncestors(f) ==
    IF mockRun.frames[f].parent = 0 THEN {}
    ELSE {mockRun.frames[f].parent}
             \cup MockAncestors(mockRun.frames[f].parent)

\* a job whose handler failed with continueOnError set: the invocation ends
\* normally, the job is not in the executed set, none of its next jobs is
\* visited and the jobs that depend on it are pending
FailureIsAbsorbed(f) ==
    /\ mockRun.frames[f].pc = "resolved"
    /\ mockRun.jobResults[mockRun.frames[f].nodeId].status = "failed"
    /\ mockRun.frames[f].nodeId \notin mockRun.executedNodes
    /\ MockChildren(mockRun, f) = {}
    /\ \A id \in JobIds(mockRun.config) :
           (\E dep \in Range(FindJob(mockRun.config, id).dependencies) :
                dep.sourceJobId = mockRun.frames[f].nodeId)
               => mockRun.jobResults[id].status = "pending"

\* C32 as stated: when a handler fails and continueOnError is false the error
\* propagates and executeWorkflow rejects with run status failed (it never
\* returns completed); when it is true the run continues, the failed job is
\* not added to the executed set, its next jobs are not traversed and the
\* jobs that depend on it stay pending.
MockContinueOnErrorDecides ==
    \A f \in MockFailedHandlers :
        IF MockJobOf(f).continueOnError
        THEN FailureIsAbsorbed(f)
        ELSE /\ mockRun.frames[f].pc = "rejected"
             /\ mockRun.pc # "returned"
             /\ mockRun.pc = "rejected" => mockRun.status = "failed"

\* C32, amended: when a handler fails and continueOnError is false the error
\* propagates up the chain of jobs that dispatched the job, each of which is
\* marked failed, until a job with continueOnError set absorbs it;
\* executeWorkflow rejects with run status failed when no job of that chain
\* has continueOnError set. When continueOnError is true the run continues,
\* the failed job is not added to the executed set, its next jobs are not
\* traversed and the jobs that depend on it stay pending.
MockErrorStopsAtContinueOnError ==
    /\ \A f \in MockFailedHandlers :
           IF MockJobOf(f).continueOnError
           THEN FailureIsAbsorbed(f)
           ELSE /\ mockRun.frames[f].pc = "rejected"
                /\ (\A a \in MockAncestors(f) : ~MockJobOf(a).continueOnError)
                       => /\ mockRun.pc # "returned"
                          /\ mockRun.pc = "rejected"
                                 => mockRun.status = "failed"
    /\ \A g \in DOMAIN mockRun.frames :
           /\ MockJobOf(g).continueOnError => mockRun.frames[g].pc # "rejected"
           /\ (/\ mockRun.frames[g].pc \in {"resolved", "rejected"}
               /\ \E c \in MockChildren(mockRun, g) :
                      mockRun.frames[c].pc = "rejected")
                  => mockRun.jobResults[mockRun.frames[g].nodeId].status
                         = "failed"

\* the run has returned completed although the handler of D failed without
\* continueOnError: A, which dispatched D and has the flag, is marked failed
\* and absorbed the error
MockRunCompletedOverFailedJob ==
    /\ mockRun.pc = "returned"
    /\ mockRun.status = "completed"
    /\ \E f \in MockFailedHandlers :
           /\ mockRun.frames[f].nodeId = "D"
           /\ ~MockJobOf(f).continueOnError
    /\ FindJob(mockRun.config, "A").continueOnError
    /\ mockRun.jobResults["A"].status = "failed"
    /\ mockRun.jobResults["B"].status = "completed"


\* executeWorkflow of the mock has settled and onWorkflowUpdate was called
MockRunSettled ==
    /\ mockRun.pc \in {"returned", "rejected"}
    /\ mockRun.workflowUpdates # <<>>

\* C36: once executeWorkflow of the mock has settled and onWorkflowUpdate has
\* been invoked, no job handler of the run is in flight and no JobResult
\* changes afterwards; a failing sibling branch does not get the run reported
\* failed while another sibling is still running.
MockSettledRunIsQuiet ==
    /\ [](MockRunSettled
             => \A f \in DOMAIN mockRun.frames :
                    mockRun.frames[f].pc # "handler")
    /\ [][MockRunSettled => mockRun'.jobResults = mockRun.jobResults]_vars


(***************************************************************************)
(* A Condition job whose handler throws                                    *)
(***************************************************************************)
\* the jobs that the connections of the job document lead to from the start
\* job, the connections of the job `without` left out
RECURSIVE ReachedInConfig(_, _, _)
ReachedInConfig(cfg, without, reached) ==
    LET next ==
            {c.targetJobId :
                c \in UNION {Range(cfg.jobs[i].connections) :
                                i \in {k \in DOMAIN cfg.jobs :
                                          /\ cfg.jobs[k].nodeId \in reached
                                          /\ cfg.jobs[k].nodeId # without}}}
    IN IF next \subseteq reached THEN reached
       ELSE ReachedInConfig(cfg, without, reached \cup next)

\* the jobs that can be reached from the start job only through the job id
ReachedOnlyThrough(id) ==
    LET start == workflowConfig.executionFlow.startNode
    IN ReachedInConfig(workflowConfig, Undefined, {start})
           \ ReachedInConfig(workflowConfig, id, {start})

\* the Condition jobs of the run whose handler has thrown
FailedConditionJobs ==
    {id \in DOMAIN jobResults :
        /\ FindJob(workflowConfig, id).isConditional
        /\ jobResults[id].status = "failed"}

\* C33: when a Condition job fails (no predicates, unknown operator) the
\* traversal follows neither its "true" nor its "false" connection: no job
\* that is reachable only through the Condition job is dispatched, those
\* jobs stay pending, and the run still ends with status completed.
FailedConditionFollowsNoBranch ==
    \A id \in FailedConditionJobs :
        /\ \A f \in DOMAIN frames :
               /\ frames[f].nodeId \notin ReachedOnlyThrough(id)
               /\ (frames[f].nodeId = id
                     /\ frames[f].pc \in {"await getNextJobs",
                                          "await allSettled", "resolved"})
                     => /\ frames[f].nextJobs = <<>>
                        /\ Children(f) = {}
        /\ \A j \in ReachedOnlyThrough(id) :
               /\ jobResults[j].status = "pending"
               /\ j \notin executedNodes
        /\ runPc # "rejected"
        /\ runPc = "returned" => wfStatus = "completed"

\* a run has returned whose Condition job holds no predicate: both branch
\* targets lie behind it and are pending
RunReturnedAfterEmptyCondition ==
    /\ runPc = "returned"
    /\ wfStatus = "completed"
    /\ "A" \in FailedConditionJobs
    /\ FindJob(workflowConfig, "A").attributes.conditions = <<>>
    /\ ReachedOnlyThrough("A") = {"T", "F"}
    /\ jobResults["T"].status = "pending"
    /\ jobResults["F"].status = "pending"


(***************************************************************************)
(* cancelExecution and the isExecuting flag                                *)
(***************************************************************************)
\* the flag has been cleared while the call still awaits the traversal: only
\* cancelExecution does that
FlagClearedDuringRun ==
    /\ runPc = "await executeFromNode"
    /\ ~isExecuting

\* the invocation f launches its next jobs in this step
LaunchStep(f) ==
    /\ f \in DOMAIN frames
    /\ frames[f].pc = "await getNextJobs"
    /\ frames'[f].pc = "await allSettled"

\* the jobs that getNextJobs names for the settled job of the invocation f
DueAfter(f) ==
    Range(getNextJobs(FindJob(workflowConfig, frames[f].nodeId),
                      jobResults[frames[f].nodeId]))

CallsInFlight ==
    {r \in {RunLocals, otherRun} :
        r # NoRun /\ r.runPc = "await executeFromNode"}

\* C35: isRunning is true in every state in which at least one
\* executeWorkflow call on the executor is in flight and false otherwise,
\* also when two calls overlap and the first one finishes before the second,
\* and after cancelExecution is called during a run.
IsRunningTracksCallsInFlight ==
    isExecuting <=> CallsInFlight # {}


(***************************************************************************)
(* The editor's edges and the nodes they name                              *)
(***************************************************************************)
\* C37: after any sequence of useWorkflow editor operations the from and to
\* ids of every edge refer to nodes of the node list: deleteNode removes
\* every edge incident to the deleted node, and the edge that the deferred
\* callback of addNodeWithContext appends never ends at or starts from a
\* node that has been deleted in the meantime.
EdgesNameExistingNodes ==
    \A e \in Range(edgesState) :
        /\ e.from \in NodeIds(nodesState)
        /\ e.to \in NodeIds(nodesState)


(***************************************************************************)
(* useWorkflowMonitor: the WebSocket of an execution, its close handler    *)
(* and the reconnect timer                                                 *)
(***************************************************************************)
\* the hook creates at most MaxSockets WebSocket objects
MaxSockets == 5

\* const maxReconnectAttempts = 5
maxReconnectAttempts == 5

\* the close codes the close event is drawn from: normal closure, going
\* away, no status received, abnormal closure
CloseCodes == {1000, 1001, 1005, 1006}

\* a socket that was never open fails to connect: its close event carries
\* the abnormal closure code
CloseCodesOf(socket) == IF socket.wasOpen THEN CloseCodes ELSE {1006}

\* new WebSocket(wsUrl) with the connection timeout armed
NewSocket ==
    [readyState |-> "CONNECTING", wasOpen |-> FALSE,
     connectionTimeout |-> TRUE]

\* ws.close(): the closing handshake starts; nothing on a socket that is
\* closing or closed
wsClose(socket) ==
    IF socket.readyState \in {"CONNECTING", "OPEN"}
    THEN [socket EXCEPT !.readyState = "CLOSING"]
    ELSE socket

\* the connect callback: the existing socket is closed under the manual
\* flag, the flag is reset, and a new socket is created and kept in the ref
connect(m) ==
    LET m1 == IF m.websocketRef # 0
              THEN [m EXCEPT
                      !.manualDisconnect = TRUE,
                      !.sockets[m.websocketRef] = wsClose(@),
                      !.websocketRef = 0]
              ELSE m
    IN [m1 EXCEPT
          !.manualDisconnect = FALSE,
          !.connectionStatus = "connecting",
          !.sockets = Append(@, NewSocket),
          !.websocketRef = Len(m1.sockets) + 1]

\* the disconnect callback
disconnect(m) ==
    LET m1 == [m EXCEPT !.manualDisconnect = TRUE]
        m2 == IF m1.reconnectTimeoutRef # 0
              THEN [m1 EXCEPT
                      !.timers[m1.reconnectTimeoutRef].state =
                          IF @ = "pending" THEN "cleared" ELSE @,
                      !.reconnectTimeoutRef = 0]
              ELSE m1
        m3 == IF m2.websocketRef # 0
              THEN [m2 EXCEPT
                      !.sockets[m2.websocketRef] = wsClose(@),
                      !.websocketRef = 0]
              ELSE m2
    IN [m3 EXCEPT !.connectionStatus = "disconnected",
                  !.reconnectAttempts = 0]

\* Math.pow(2, reconnectAttemptsRef.current) * 1000
reconnectDelay(attempts) == (2 ^ attempts) * 1000

\* ws.onopen
onopen(m, s) ==
    [m EXCEPT !.sockets[s].connectionTimeout = FALSE,
              !.connectionStatus = "connected",
              !.reconnectAttempts = 0]

\* ws.onclose of the socket s with event.code = code
onclose(m, s, code) ==
    LET m1 == [m EXCEPT !.sockets[s].connectionTimeout = FALSE,
                        !.connectionStatus = "disconnected"]
        m2 == IF code \in {1001, 1002, 1003}
              THEN [m1 EXCEPT !.connectionStatus = "error"]
              ELSE m1
    IN IF m.manualDisconnect THEN m1
       ELSE IF code = 1006 THEN [m1 EXCEPT !.connectionStatus = "error"]
       ELSE IF code # 1006 /\ m.reconnectAttempts < maxReconnectAttempts
       THEN [m2 EXCEPT
               !.timers =
                   Append(@, [delay |-> reconnectDelay(m.reconnectAttempts),
                              state |-> "pending"]),
               !.reconnectTimeoutRef = Len(m.timers) + 1]
       ELSE [m2 EXCEPT !.connectionStatus = "error"]

\* connect() is called: by the effect when the execution id is set, or by
\* the component that uses the hook
Connect ==
    /\ Len(monitor.sockets) < MaxSockets
    /\ monitor' = connect(monitor)
    /\ UNCHANGED <<besideOthers, mockRun>>

\* disconnect() is called: by the effect's cleanup, by the effect when the
\* execution id is null, or by the component that uses the hook
Disconnect ==
    /\ monitor.sockets # <<>>
    /\ monitor' = disconnect(monitor)
    /\ UNCHANGED <<besideOthers, mockRun>>

\* the connection of the socket s is established
SocketOpens(s) ==
    /\ monitor.sockets[s].readyState = "CONNECTING"
    /\ monitor' = onopen([monitor EXCEPT !.sockets[s].readyState = "OPEN",
                                         !.sockets[s].wasOpen = TRUE], s)
    /\ UNCHANGED <<besideOthers, mockRun>>

\* the error event of the socket s
SocketErrors(s) ==
    /\ monitor.sockets[s].readyState \in {"CONNECTING", "OPEN"}
    /\ monitor.connectionStatus # "error"
    /\ monitor' = [monitor EXCEPT !.connectionStatus = "error"]
    /\ UNCHANGED <<besideOthers, mockRun>>

\* the close event of the socket s: after ws.close(), or when the server or
\* the network ends the connection
SocketCloses(s, code) ==
    /\ monitor.sockets[s].readyState # "CLOSED"
    /\ code \in CloseCodesOf(monitor.sockets[s])
    /\ monitor' = onclose([monitor EXCEPT !.sockets[s].readyState = "CLOSED",
                                          !.closeCode = code],
                          s, code)
    /\ UNCHANGED <<besideOthers, mockRun>>

\* the 10 second connection timeout of the socket s fires
ConnectionTimeout(s) ==
    /\ monitor.sockets[s].connectionTimeout
    /\ monitor' =
           IF monitor.sockets[s].readyState = "CONNECTING"
           THEN [monitor EXCEPT
                   !.sockets[s] =
                       [wsClose(@) EXCEPT !.connectionTimeout = FALSE],
                   !.connectionStatus = "error"]
           ELSE [monitor EXCEPT !.sockets[s].connectionTimeout = FALSE]
    /\ UNCHANGED <<besideOthers, mockRun>>

\* the reconnect timer t fires: reconnectAttemptsRef.current++; connect()
ReconnectTimerFires(t) ==
    /\ monitor.timers[t].state = "pending"
    /\ Len(monitor.sockets) < MaxSockets
    /\ monitor' =
           connect([monitor EXCEPT
                      !.timers[t].state = "fired",
                      !.reconnectAttempts = @ + 1])
    /\ UNCHANGED <<besideOthers, mockRun>>

NextMonitor ==
    \/ Connect
    \/ Disconnect
    \/ \E s \in DOMAIN monitor.sockets : SocketOpens(s)
    \/ \E s \in DOMAIN monitor.sockets : SocketErrors(s)
    \/ \E s \in DOMAIN monitor.sockets :
           \E code \in CloseCodes : SocketCloses(s, code)
    \/ \E s \in DOMAIN monitor.sockets : ConnectionTimeout(s)
    \/ \E t \in DOMAIN monitor.timers : ReconnectTimerFires(t)

SpecMonitor == Init /\ [][NextMonitor]_vars



\* the reconnect timers that are armed
PendingTimers ==
    {t \in DOMAIN monitor.timers : monitor.timers[t].state = "pending"}

\* the sockets that are open or being opened
LiveSockets ==
    {s \in DOMAIN monitor.sockets :
        monitor.sockets[s].readyState \in {"CONNECTING", "OPEN"}}

\* the close event of the socket s is handled in this step
CloseStep(s) ==
    /\ s \in DOMAIN monitor.sockets
    /\ monitor.sockets[s].readyState # "CLOSED"
    /\ monitor'.sockets[s].readyState = "CLOSED"

\* a reconnect timer is armed in this step
SchedulesReconnect == Len(monitor'.timers) > Len(monitor.timers)

\* C38: after disconnect() no reconnection attempt is made until connect()
\* is called again: no reconnect timer stays armed and the close event of
\* the manually closed socket arms none; the close event of a socket that
\* connect() has replaced arms none either, and at most one socket is live
\* or being opened at any time.
ManualCloseNeverReconnects ==
    /\ [](monitor.manualDisconnect => PendingTimers = {})
    /\ [][monitor.manualDisconnect
             /\ Len(monitor'.sockets) > Len(monitor.sockets)
             => monitor'.timers = monitor.timers]_vars
    /\ [][\A s \in DOMAIN monitor.sockets :
              CloseStep(s) /\ s # monitor.websocketRef
                  => ~SchedulesReconnect]_vars
    /\ [](Cardinality(LiveSockets) <= 1)


\* the reconnect timer t fires in this step
FireStep(t) ==
    /\ t \in DOMAIN monitor.timers
    /\ monitor.timers[t].state = "pending"
    /\ monitor'.timers[t].state = "fired"

\* C39: automatic reconnection is bounded: a close arms a reconnect timer
\* only when its code is not 1006 and fewer than 5 consecutive attempts have
\* been made since the last open; the n-th consecutive attempt is made after
\* a delay of 2^(n-1) seconds; after the fifth the close handler sets the
\* status error and arms nothing; a close with code 1006 never arms a timer.
ReconnectionIsBounded ==
    /\ [][\A s \in DOMAIN monitor.sockets :
              CloseStep(s) /\ SchedulesReconnect
                  => /\ monitor'.closeCode # 1006
                     /\ monitor.reconnectAttempts < maxReconnectAttempts
                     /\ monitor'.timers[Len(monitor'.timers)].delay =
                            (2 ^ monitor.reconnectAttempts) * 1000]_vars
    /\ [][\A s \in DOMAIN monitor.sockets :
              CloseStep(s) /\ ~monitor.manualDisconnect
                /\ monitor.reconnectAttempts >= maxReconnectAttempts
                  => /\ ~SchedulesReconnect
                     /\ monitor'.connectionStatus = "error"]_vars
    /\ [](monitor.reconnectAttempts <= maxReconnectAttempts)
    /\ [][\A t \in DOMAIN monitor.timers :
              FireStep(t)
                  => monitor.timers[t].delay =
                         (2 ^ monitor.reconnectAttempts) * 1000]_vars

====
